---- MODULE Spec2Model ----
(***************************************************************************)
(* State-machine model of the DTLS peer-association engine                  *)
(* (dtls/sslconnection.py, dtls/openssl.py).  One server socket with its    *)
(* Listener, the associations accepted from it, re-wrapped associations,    *)
(* one client socket, the crypto library's sessions, BIOs, contexts and     *)
(* per-thread error queue, and the routing demux in front of the Listener.  *)
(***************************************************************************)
EXTENDS Integers, Sequences, FiniteSets, TLC

\* ------------------------------------------------------------------ bounds
NumPeers == 2
MaxDgrams == 3
MaxConns == 3
MaxErrQueue == 1
MaxUnwrapped == 1
MaxRewraps == 2
MaxFaults == 1
MaxCtorConns == 2
MaxHellos == 2

\* --------------------------------------------------------- program constants
CERT_NONE == 0
CERT_OPTIONAL == 1
CERT_REQUIRED == 2
SSL_SESS_CACHE_OFF == 0
SSL_SESS_CACHE_SERVER == 2

\* ------------------------------------------------------------ value domains
\* Python None for tuples and handles; an address is a (host, port) tuple.
None == <<>>
NoHandle == 0
Peers == {<<"peer", i>> : i \in 1..NumPeers}
\* Source address seen on a demux endpoint: the demux's own forwarding socket.
LocalForwardAddr == <<"local", 1>>
\* File-name arguments: None, the empty string, a path.
NoFile == "<None>"
FileArgs == {NoFile, "", "file.pem"}
Truthy(f) == f \notin {NoFile, ""}
\* Socket timeouts: None, 0.0, a positive number of seconds.
TimeoutNone == <<>>
TimeoutZero == <<"0.0">>
TimeoutSome == <<"5.0">>
TruthyTimeout(t) == t \notin {TimeoutNone, TimeoutZero}
\* Sockets the application can hand to the constructor.
SrvSock == <<"udp">>
CliSock == <<"cli">>
TcpSock == <<"tcp">>
Endpoint(key) == <<"conn", key>>
\* Crypto error-queue codes and SSL_get_error results.
ERR_COOKIE_MISMATCH == "ERR_COOKIE_MISMATCH"
ERR_READ_TIMEOUT_EXPIRED == "ERR_READ_TIMEOUT_EXPIRED"
ERR_INTERNAL == "ERR_INTERNAL"
SSL_ERROR_NONE == "SSL_ERROR_NONE"
SSL_ERROR_SSL == "SSL_ERROR_SSL"
SSL_ERROR_WANT_READ == "SSL_ERROR_WANT_READ"
SSL_ERROR_WANT_WRITE == "SSL_ERROR_WANT_WRITE"
SSL_ERROR_SYSCALL == "SSL_ERROR_SYSCALL"
SSL_ERROR_ZERO_RETURN == "SSL_ERROR_ZERO_RETURN"

NoExc == [type |-> "none"]

VARIABLES
    conns,      \* the SSLConnection objects constructed so far
    ssls,       \* crypto sessions (SSL*), by handle
    bios,       \* BIOs, by handle
    ctxs,       \* contexts (SSL_CTX*), by handle
    errq,       \* the thread's crypto error queue
    socks,      \* application sockets: type, connected peer, timeout
    demux,      \* the routing demux of the server socket
    sockq,      \* datagrams waiting on the server socket, in arrival order
    nseq,       \* number of datagrams that have arrived
    yielded,    \* per demux endpoint: what it has yielded to its readers
    sent,       \* HelloVerifyRequests written by the Listener
    unwrapped,  \* the _UnwrappedSocket objects returned by shutdown()
    nfault,     \* number of allocation failures injected so far
    last        \* the most recent operation and its outcome

vars == <<conns, ssls, bios, ctxs, errq, socks, demux, sockq, nseq, yielded,
          sent, unwrapped, nfault, last>>

\* ------------------------------------------------------------ small helpers
Range(s) == {s[i] : i \in DOMAIN s}
SetAt(f, k, v) == [x \in (DOMAIN f) \cup {k} |-> IF x = k THEN v ELSE f[x]]

\* The whole program state as one record, so that a handler is a function from
\* state to state and one handler can call another (accept calls listen).
World == [conns |-> conns, ssls |-> ssls, bios |-> bios, ctxs |-> ctxs,
          errq |-> errq, socks |-> socks, demux |-> demux, sockq |-> sockq,
          yielded |-> yielded, sent |-> sent, unwrapped |-> unwrapped,
          log |-> <<>>]

\* The calls a handler makes on its collaborators are noted, in order, in the
\* log of the state it works on; the log starts empty with every operation.
Called(w, call, arg) ==
    [w EXCEPT !.log = Append(@, [call |-> call, arg |-> arg])]
Calls(log) == [i \in DOMAIN log |-> log[i].call]

Install(w) ==
    /\ conns' = w.conns
    /\ ssls' = w.ssls
    /\ bios' = w.bios
    /\ ctxs' = w.ctxs
    /\ errq' = w.errq
    /\ socks' = w.socks
    /\ demux' = w.demux
    /\ sockq' = w.sockq
    /\ yielded' = w.yielded
    /\ sent' = w.sent
    /\ unwrapped' = w.unwrapped

\* ------------------------------------------------------------------ datagrams
NoDgram == [src |-> None, kind |-> "none", cookie |-> None, seq |-> 0]
DgramKinds == {"hello", "hello_cookie", "malformed", "record"}
Tag(d) == <<d.src, d.seq>>

\* ---------------------------------------------------------------- AddrCodec
\* str(peer_address): the printed form of an address tuple.
Str(address) == <<"(", address[1], ", ", address[2], ")">>

\* Address tuples as the application writes them: <<host, port>> for IPv4,
\* <<host, port, flowinfo, scope_id>> for IPv6.  A host is its text, split at
\* the separators: a sequence of fields, each the sequence of its characters;
\* the empty field of an IPv6 text is its "::".  A 32-bit integer is the pair
\* <<high half, low half>> of 16-bit integers.
AF_INET == "AF_INET"
AF_INET6 == "AF_INET6"
HalfWidth == 65536
NumGroups == 8
LowerDigits ==
    <<"0", "1", "2", "3", "4", "5", "6", "7", "8", "9",
      "a", "b", "c", "d", "e", "f">>
UpperDigits ==
    <<"0", "1", "2", "3", "4", "5", "6", "7", "8", "9",
      "A", "B", "C", "D", "E", "F">>

DigitVal(ch) ==
    CHOOSE v \in 0..15 : LowerDigits[v + 1] = ch \/ UpperDigits[v + 1] = ch

RECURSIVE ParseNum(_, _)
ParseNum(field, base) ==
    IF field = <<>> THEN 0
    ELSE ParseNum(SubSeq(field, 1, Len(field) - 1), base) * base
         + DigitVal(field[Len(field)])

RECURSIVE FormatNum(_, _)
FormatNum(n, base) ==
    IF n < base THEN <<LowerDigits[n + 1]>>
    ELSE FormatNum(n \div base, base) \o <<LowerDigits[(n % base) + 1]>>

\* socket.htons / ntohs on a little-endian host: the two bytes swapped.
htons(x) == ((x % HalfWidth) % 256) * 256 + ((x % HalfWidth) \div 256)
ntohs(x) == htons(x)

\* socket.htonl / ntohl: the four bytes reversed.
htonl(x) == <<htons(x[2]), htons(x[1])>>
ntohl(x) == htonl(x)

\* array.array('I', packed): four bytes in network order read as one native
\* unsigned integer, and tostring(), its inverse.
WordOfBytes(b) == <<b[4] * 256 + b[3], b[2] * 256 + b[1]>>
BytesOfWord(x) == <<x[2] % 256, x[2] \div 256, x[1] % 256, x[1] \div 256>>

SocketError == [type |-> "socket.error"]

\* inet_pton(AF_INET, text): four decimal fields without leading zeros, each
\* at most 255.
ValidOctet(field) ==
    /\ Len(field) \in 1..3
    /\ \A i \in 1..Len(field) : DigitVal(field[i]) < 10
    /\ Len(field) > 1 => field[1] # "0"
    /\ ParseNum(field, 10) <= 255

inet_pton4(host) ==
    IF Len(host) = 4 /\ \A i \in 1..4 : ValidOctet(host[i])
    THEN [exc |-> NoExc,
          ret |-> <<WordOfBytes([i \in 1..4 |-> ParseNum(host[i], 10)])>>]
    ELSE [exc |-> SocketError, ret |-> <<>>]

\* inet_pton(AF_INET6, text): groups of one to four hexadecimal digits of
\* either case; one "::" stands for the groups that are missing.
Gaps(host) == {i \in 1..Len(host) : host[i] = <<>>}

ValidV6(host) ==
    /\ \A i \in 1..Len(host) : Len(host[i]) <= 4
    /\ \/ Gaps(host) = {} /\ Len(host) = NumGroups
       \/ Cardinality(Gaps(host)) = 1 /\ Len(host) <= NumGroups

GroupsOf(host) ==
    IF Gaps(host) = {} THEN [i \in 1..NumGroups |-> ParseNum(host[i], 16)]
    ELSE LET g == CHOOSE i \in Gaps(host) : TRUE
             fill == NumGroups - (Len(host) - 1)
         IN  [i \in 1..NumGroups |->
                 IF i < g THEN ParseNum(host[i], 16)
                 ELSE IF i < g + fill THEN 0
                 ELSE ParseNum(host[i - fill + 1], 16)]

inet_pton6(host) ==
    IF ValidV6(host)
    THEN [exc |-> NoExc,
          ret |-> [k \in 1..4 |->
                     WordOfBytes(
                       <<GroupsOf(host)[2 * k - 1] \div 256,
                         GroupsOf(host)[2 * k - 1] % 256,
                         GroupsOf(host)[2 * k] \div 256,
                         GroupsOf(host)[2 * k] % 256>>)]]
    ELSE [exc |-> SocketError, ret |-> <<>>]

inet_pton(address_family, string_ip) ==
    IF address_family = AF_INET6 THEN inet_pton6(string_ip)
    ELSE inet_pton4(string_ip)

\* inet_ntop: the text the platform prints.  IPv4: four decimal fields.
\* IPv6: lower-case groups without leading zeros, the first longest run of
\* two or more zero groups written as "::" (the dotted form of the mapped and
\* compatible IPv4 ranges is outside the hosts drawn here).
PackedGroups(packed) ==
    [i \in 1..NumGroups |->
        LET b == BytesOfWord(packed[(i + 1) \div 2])
        IN  IF i % 2 = 1 THEN b[1] * 256 + b[2] ELSE b[3] * 256 + b[4]]

\* The length of the run of zero groups that starts at group i.
ZeroRun(g, i) ==
    IF g[i] # 0 THEN 0
    ELSE CHOOSE n \in 1..(NumGroups - i + 1) :
           /\ \A j \in i..(i + n - 1) : g[j] = 0
           /\ i + n <= NumGroups => g[i + n] # 0

BestRun(g) ==
    LET starts == {i \in 1..NumGroups :
                     /\ ZeroRun(g, i) >= 2
                     /\ i > 1 => g[i - 1] # 0}
    IN  IF starts = {} THEN 0
        ELSE CHOOSE i \in starts :
               \A j \in starts :
                  \/ ZeroRun(g, j) < ZeroRun(g, i)
                  \/ ZeroRun(g, j) = ZeroRun(g, i) /\ i <= j

RECURSIVE GroupText(_, _, _)
GroupText(g, i, best) ==
    IF i > NumGroups THEN <<>>
    ELSE IF i = best
    THEN << <<>> >> \o GroupText(g, i + ZeroRun(g, i), best)
    ELSE <<FormatNum(g[i], 16)>> \o GroupText(g, i + 1, best)

inet_ntop(address_family, packed_ip) ==
    IF address_family = AF_INET6
    THEN GroupText(PackedGroups(packed_ip), 1, BestRun(PackedGroups(packed_ip)))
    ELSE [i \in 1..4 |-> FormatNum(BytesOfWord(packed_ip[1])[i], 10)]

\* sockaddr_u_from_addr_tuple(address): [exc, su].
sockaddr_u_from_addr_tuple(address) ==
    IF Len(address) > 2
    THEN [exc |-> inet_pton(AF_INET6, address[1]).exc,
          su |-> [ss_family |-> AF_INET6,
                  addr |-> inet_pton(AF_INET6, address[1]).ret,
                  port |-> htons(address[2]),
                  flowinfo |-> htonl(address[3]),
                  scope_id |-> htonl(address[4])]]
    ELSE [exc |-> inet_pton(AF_INET, address[1]).exc,
          su |-> [ss_family |-> AF_INET,
                  addr |-> inet_pton(AF_INET, address[1]).ret,
                  port |-> htons(address[2])]]

\* Faulty variant: the port is read as stored, in network byte order.
addr_tuple_from_sockaddr_u_raw_port(su) ==
    IF su.ss_family = AF_INET6
    THEN <<inet_ntop(AF_INET6, su.addr), su.port, ntohl(su.flowinfo),
           ntohl(su.scope_id)>>
    ELSE <<inet_ntop(AF_INET, su.addr), su.port>>

addr_tuple_from_sockaddr_u(su) ==
    IF su.ss_family = AF_INET6
    THEN <<inet_ntop(AF_INET6, su.addr), ntohs(su.port), ntohl(su.flowinfo),
           ntohl(su.scope_id)>>
    ELSE <<inet_ntop(AF_INET, su.addr), ntohs(su.port)>>

\* ------------------------------------------------------------- CookieEngine
rnd_key == "urandom16"
HMAC(key, msg) == <<"hmac", key, msg>>
ForgedCookie(address) == HMAC("guessed-key", Str(address))

\* BIO_dgram_get_peer: the source of the last datagram the BIO read.
BIO_dgram_get_peer(w, bio) == w.bios[bio].peer

\* Faulty variant: the address is always asked of the read BIO, which a routing
\* demux feeds from a local forwarding socket.
_get_cookie_address_bio(w, c) == BIO_dgram_get_peer(w, w.conns[c].rbio)

_get_cookie_address(w, c) ==
    IF w.conns[c].listening_peer_address # None
    THEN w.conns[c].listening_peer_address
    ELSE BIO_dgram_get_peer(w, w.conns[c].rbio)

\* [ok, value]: ok is FALSE when one of the two assertions fails.
_get_cookie(w, c, ssl) ==
    IF ~ w.conns[c].listening THEN [ok |-> FALSE, value |-> None]
    ELSE IF w.conns[c].ssl # ssl THEN [ok |-> FALSE, value |-> None]
    ELSE [ok |-> TRUE,
          value |-> HMAC(rnd_key, Str(_get_cookie_address(w, c)))]

_generate_cookie_cb(w, c, ssl) == _get_cookie(w, c, ssl)

\* TRUE when the callback returns normally, FALSE when it raises.
_verify_cookie_cb(w, c, ssl, cookie) ==
    LET mine == _get_cookie(w, c, ssl)
    IN  mine.ok /\ mine.value = cookie

\* What the Python callback raises inside the trampoline, NoExc when it
\* returns: a failed assertion of _get_cookie, or the mismatch of
\* _verify_cookie_cb.
AssertionError == [type |-> "AssertionError"]
CookieMismatch == [type |-> "Exception", msg |-> "DTLS cookie mismatch"]

_generate_cookie_cb_raises(w, c, ssl) ==
    IF _get_cookie(w, c, ssl).ok THEN NoExc ELSE AssertionError

_verify_cookie_cb_raises(w, c, ssl, cookie) ==
    IF ~ _get_cookie(w, c, ssl).ok THEN AssertionError
    ELSE IF _get_cookie(w, c, ssl).value # cookie THEN CookieMismatch
    ELSE NoExc

\* Faulty variant: a trampoline without the except clause; the exception is
\* lost at the foreign-function boundary and the library is told 1.
py_verify_cookie_cb_uncaught(w, c, ssl, cookie) == 1

\* The trampolines handed to the crypto library: 1 on success, 0 when the
\* Python callback raised.
py_generate_cookie_cb(w, c, ssl) ==
    LET r == _generate_cookie_cb(w, c, ssl)
    IN  IF r.ok THEN [ret |-> 1, cookie |-> r.value]
        ELSE [ret |-> 0, cookie |-> None]

py_verify_cookie_cb(w, c, ssl, cookie) ==
    IF _verify_cookie_cb(w, c, ssl, cookie) THEN 1 ELSE 0

\* ---------------------------------------------------------------------- Demux
NoDemux == [exists |-> FALSE, connections |-> <<>>, payload |-> NoDgram]

\* get_connection(addr): the endpoint for addr, created on first use.
\* addr = None is the overflow endpoint; it is created non-blocking.
get_connection(w, address) ==
    IF address \in DOMAIN w.demux.connections THEN w
    ELSE [w EXCEPT
            !.demux.connections = SetAt(@, address, <<>>),
            !.yielded = SetAt(@, address, <<>>),
            !.socks = SetAt(@, Endpoint(address),
                            [type |-> "dgram", peer |-> None,
                             timeout |-> IF address = None THEN TimeoutZero
                                         ELSE TimeoutNone])]

\* forward(): deliver the datagram just observed to its peer's queue, or to
\* the overflow queue when the peer has none.
forward(w) ==
    LET d == w.demux.payload
        key == IF d.src \in DOMAIN w.demux.connections THEN d.src ELSE None
    IN  [w EXCEPT !.demux.connections[key] = Append(@, d),
                  !.demux.payload = NoDgram]

\* service(): read one datagram from the shared socket.  Result: the state
\* and either an exception or the new peer's address (None for a known peer).
service(w, sockerr) ==
    IF sockerr # "none"
    THEN [w |-> w, exc |-> [type |-> "socket.error", errno |-> sockerr],
          ret |-> None]
    ELSE IF w.sockq = <<>>
    THEN [w |-> w,
          exc |-> IF w.socks[SrvSock].timeout = TimeoutZero
                  THEN [type |-> "socket.error", errno |-> "EWOULDBLOCK"]
                  ELSE [type |-> "socket.timeout"],
          ret |-> None]
    ELSE LET d == Head(w.sockq)
             w1 == [w EXCEPT !.sockq = Tail(@), !.demux.payload = d]
         IN  IF d.src \in DOMAIN w.demux.connections
             THEN [w |-> forward(w1), exc |-> NoExc, ret |-> None]
             ELSE [w |-> w1, exc |-> NoExc, ret |-> d.src]

\* A read on a demux endpoint: the head of its queue, recorded as yielded.
EndpointHas(w, key) == w.demux.connections[key] # <<>>
EndpointHead(w, key) == Head(w.demux.connections[key])
EndpointPop(w, key) ==
    [w EXCEPT !.demux.connections[key] = Tail(@),
              !.yielded[key] = Append(@, Tag(EndpointHead(w, key)))]

\* ------------------------------------------------- crypto library: handles
\* A handle is the index of its record; the records are never removed, a
\* free is counted in the record.
BIO_new_dgram(w, fd) ==
    [w EXCEPT !.bios = Append(@, [fd |-> fd, peer |-> None, nbio |-> FALSE,
                                  owned |-> TRUE, freed |-> 0])]

\* A new context caches server-side sessions, the library's default.
SSL_CTX_new(w, method) ==
    [w EXCEPT !.ctxs = Append(@, [method |-> method,
                                  cache_mode |-> SSL_SESS_CACHE_SERVER,
                                  verify_mode |-> {},
                                  read_ahead |-> 0,
                                  cookie_cb |-> NoHandle])]

SSL_new(w, ctx) ==
    [w EXCEPT !.ssls = Append(@, [ctx |-> ctx, state |-> "new",
                                  rbio |-> NoHandle, wbio |-> NoHandle,
                                  handshake |-> "before", freed |-> 0])]

SSL_set_accept_state(w, ssl) == [w EXCEPT !.ssls[ssl].state = "accept"]
SSL_set_connect_state(w, ssl) == [w EXCEPT !.ssls[ssl].state = "connect"]

BIO_free(w, bio) == [w EXCEPT !.bios[bio].freed = @ + 1]

\* SSL_set_bio: the session takes the two BIOs and frees the ones it held.
SSL_set_bio(w, ssl, rbio, wbio) ==
    LET old_r == w.ssls[ssl].rbio
        old_w == w.ssls[ssl].wbio
        w1 == IF old_r # NoHandle /\ old_r # rbio THEN BIO_free(w, old_r)
              ELSE w
        w2 == IF old_w # NoHandle /\ old_w # wbio /\ old_r # old_w
              THEN BIO_free(w1, old_w) ELSE w1
    IN  [w2 EXCEPT !.ssls[ssl].rbio = rbio, !.ssls[ssl].wbio = wbio]

\* SSL_free: the session and the BIOs it holds (once when they are one).
SSL_free(w, ssl) ==
    LET r == w.ssls[ssl].rbio
        wb == w.ssls[ssl].wbio
        w1 == IF r # NoHandle THEN BIO_free(w, r) ELSE w
        w2 == IF wb # NoHandle /\ wb # r THEN BIO_free(w1, wb) ELSE w1
    IN  [w2 EXCEPT !.ssls[ssl].freed = @ + 1]

\* _BIO wrapper: disown() gives the handle up; dropping a wrapper that still
\* owns its handle frees it.
disown(w, bio) == [w EXCEPT !.bios[bio].owned = FALSE]
DropBio(w, bio) ==
    IF bio # NoHandle /\ w.bios[bio].owned
    THEN disown(BIO_free(w, bio), bio) ELSE w

BIO_dgram_set_peer(w, bio, peer_address) ==
    [w EXCEPT !.bios[bio].peer = peer_address]
BIO_set_nbio(w, bio, n) == [w EXCEPT !.bios[bio].nbio = n]

SSL_CTX_set_session_cache_mode(w, ctx, mode) ==
    [w EXCEPT !.ctxs[ctx].cache_mode = mode]

\* ---------------------------------------------------------- error reporting
\* SSL_get_error: a non-empty error queue is reported as SSL_ERROR_SSL
\* whatever the I/O condition of the call was.
SSL_get_error(queue, result, cond) ==
    IF result > 0 THEN SSL_ERROR_NONE
    ELSE IF queue # <<>> THEN SSL_ERROR_SSL
    ELSE cond

\* raise_ssl_error(result, func, args, ssl): drain the queue into the error.
\* call = [ret, cond, push]: what the library call returned, its I/O
\* condition, and the entries it pushed on the error queue.
raise_ssl_error(w, call, has_ssl) ==
    LET queue == w.errq \o call.push
    IN  [w |-> [w EXCEPT !.errq = <<>>],
         exc |-> [type |-> "openssl_error",
                  ssl_error |-> IF has_ssl
                                THEN SSL_get_error(queue, call.ret, call.cond)
                                ELSE SSL_ERROR_NONE,
                  errqueue |-> queue,
                  result |-> call.ret]]

\* errcheck_ord: results <= 0 raise.
errcheck_ord(w, call) ==
    IF call.ret <= 0 THEN raise_ssl_error(w, call, TRUE)
    ELSE [w |-> [w EXCEPT !.errq = @ \o call.push], exc |-> NoExc]

\* errcheck_p: a false (zero) result raises.
errcheck_p(w, call) ==
    IF call.ret = 0 THEN raise_ssl_error(w, call, FALSE)
    ELSE [w |-> [w EXCEPT !.errq = @ \o call.push], exc |-> NoExc]

\* ------------------------------------------------------ DTLS listen primitive
\* The key of the demux endpoint a BIO reads from.
BioKey(w, bio) == w.bios[bio].fd[2]

\* SSL_ctrl(ssl, DTLS_CTRL_LISTEN): read datagrams from the session's read
\* BIO until one decides the call.  A ClientHello without cookie is answered
\* with a HelloVerifyRequest carrying the generated cookie (WANT_READ); one
\* with a cookie is verified (success, or a cookie mismatch on the error
\* queue); other records are dropped; nothing left to read is WANT_READ.
RECURSIVE SSL_ctrl_listen(_, _)
SSL_ctrl_listen(w, ssl) ==
    LET rbio == w.ssls[ssl].rbio
        wbio == w.ssls[ssl].wbio
        key == BioKey(w, rbio)
        cb == w.ctxs[w.ssls[ssl].ctx].cookie_cb
        idle == [ret |-> 0 - 1, cond |-> SSL_ERROR_WANT_READ, push |-> <<>>,
                 dgram |-> NoDgram, verify |-> "none", su |-> None,
                 raised |-> NoExc]
    IN  IF ~ EndpointHas(w, key) THEN [w |-> w, call |-> idle]
        ELSE
        LET d == EndpointHead(w, key)
            w1 == [EndpointPop(w, key) EXCEPT
                     !.bios[rbio].peer = LocalForwardAddr]
        IN  CASE d.kind = "hello" ->
                   LET gen == py_generate_cookie_cb(w1, cb, ssl)
                   IN  IF gen.ret = 1
                       THEN [w |-> [w1 EXCEPT !.sent = @ \cup
                                      {[dst |-> w1.bios[wbio].peer,
                                        cookie |-> gen.cookie]}],
                             call |-> [idle EXCEPT !.dgram = d]]
                       ELSE [w |-> w1,
                             call |-> [idle EXCEPT
                                         !.cond = SSL_ERROR_SSL,
                                         !.push = <<ERR_INTERNAL>>,
                                         !.dgram = d,
                                         !.raised =
                                           _generate_cookie_cb_raises(
                                             w1, cb, ssl)]]
              [] d.kind = "hello_cookie" ->
                   IF py_verify_cookie_cb(w1, cb, ssl, d.cookie) = 1
                   THEN [w |-> [w1 EXCEPT !.ssls[ssl].handshake = "cookie_ok"],
                         call |-> [idle EXCEPT !.ret = 1,
                                     !.cond = SSL_ERROR_NONE, !.dgram = d,
                                     !.verify = "ok",
                                     !.raised =
                                       _verify_cookie_cb_raises(
                                         w1, cb, ssl, d.cookie),
                                     !.su = BIO_dgram_get_peer(w1, rbio)]]
                   ELSE [w |-> w1,
                         call |-> [idle EXCEPT
                                     !.cond = SSL_ERROR_SSL,
                                     !.push = <<ERR_COOKIE_MISMATCH>>,
                                     !.dgram = d, !.verify = "fail",
                                     !.raised =
                                       _verify_cookie_cb_raises(
                                         w1, cb, ssl, d.cookie)]]
              [] d.kind = "malformed" ->
                   [w |-> w1,
                    call |-> [idle EXCEPT !.cond = SSL_ERROR_SSL,
                                !.push = <<ERR_INTERNAL>>, !.dgram = d]]
              [] OTHER -> SSL_ctrl_listen(w1, ssl)

NoCall == [ret |-> 0, cond |-> SSL_ERROR_NONE, push |-> <<>>,
           dgram |-> NoDgram, verify |-> "none", su |-> None,
           raised |-> NoExc]

\* DTLSv1_listen(ssl): the peer address on success, openssl_error otherwise.
\* lib is what the library call did: [w, call].
DTLSv1_listen_check(lib) ==
    errcheck_ord(lib.w, lib.call) @@ [ret |-> lib.call.su, call |-> lib.call]

DTLSv1_listen(w, ssl) == DTLSv1_listen_check(SSL_ctrl_listen(w, ssl))

\* --------------------------------------------------------------- SSLConnection
IsTuple(peer_address) == peer_address # None

gettimeout(w, sock) == w.socks[sock].timeout

_check_nbio(w, me) ==
    IF me.wbio # me.rbio
    THEN BIO_set_nbio(
           BIO_set_nbio(w, me.wbio, gettimeout(w, me.sock) # TimeoutNone),
           me.rbio, gettimeout(w, me.rsock) # TimeoutNone)
    ELSE BIO_set_nbio(w, me.wbio, gettimeout(w, me.sock) # TimeoutNone)

\* listen(), the except clauses around service(): TRUE when the socket error
\* is taken as "no datagram".
listen_no_datagram(exc) ==
    \/ exc.type = "socket.timeout"
    \/ exc.type = "socket.error" /\ exc.errno = "EWOULDBLOCK"

\* listen(), the except clause around DTLSv1_listen: TRUE when the error is
\* recovered from by returning None.
listen_recovers(err) ==
    \/ err.ssl_error = SSL_ERROR_WANT_READ
    \/ err.errqueue # <<>> /\ err.errqueue[1] = ERR_COOKIE_MISMATCH

\* Faulty variant: the pending peer is always what DTLSv1_listen returned.
listen_pending_dtls(peer_address, dtls_peer_address) == dtls_peer_address

\* listen(), the pending peer after a successful DTLSv1_listen.
listen_pending(peer_address, dtls_peer_address) ==
    IF IsTuple(peer_address) THEN peer_address ELSE dtls_peer_address

\* What listen() hands back: [w, exc, ret] and what happened on the way (svc:
\* how service() ended; dtls: how the DTLS listen primitive ended, "none" if
\* it was not invoked; call: what the library did; peer: service()'s result).
listen_returns(w, svc) ==
    [w |-> w, exc |-> NoExc, ret |-> None, svc |-> svc, dtls |-> "none",
     call |-> NoCall, peer |-> None]

\* Faulty variant: listen() creates a session for the peer before the cookie
\* exchange.
listen_prepare_session(w, c, peer_address) ==
    SSL_new(
      [_check_nbio(forward(BIO_dgram_set_peer(w, w.conns[c].wbio,
                                              peer_address)),
                   w.conns[c])
       EXCEPT !.conns[c].listening_peer_address = peer_address,
              !.conns[c].listening = TRUE],
      w.conns[c].ctx)

\* Faulty variant: the datagram is forwarded before the write BIO is pointed
\* at the peer.
listen_prepare_forward_first(w, c, peer_address) ==
    [_check_nbio(
       Called(BIO_dgram_set_peer(Called(forward(w), "forward", None),
                                 w.conns[c].wbio, peer_address),
              "BIO_dgram_set_peer", <<w.conns[c].wbio, peer_address>>),
       w.conns[c])
     EXCEPT !.conns[c].listening_peer_address = peer_address,
            !.conns[c].listening = TRUE]

\* listen(), the statements before DTLSv1_listen for a new peer.
listen_prepare(w, c, peer_address) ==
    [_check_nbio(
       Called(forward(
                Called(BIO_dgram_set_peer(w, w.conns[c].wbio, peer_address),
                       "BIO_dgram_set_peer",
                       <<w.conns[c].wbio, peer_address>>)),
              "forward", None),
       w.conns[c])
     EXCEPT !.conns[c].listening_peer_address = peer_address,
            !.conns[c].listening = TRUE]

\* Faulty variant: a listen() without the finally clause.
listen_finally_skipped(w, c) == w

\* listen(), the finally clause.
listen_finally(w, c) ==
    [w EXCEPT !.conns[c].listening = FALSE,
              !.conns[c].listening_peer_address = None]

\* listen(), from the return of DTLSv1_listen (r) on.
listen_dtls(c, peer_address, r) ==
    IF r.exc # NoExc
    THEN [listen_returns(listen_finally(r.w, c), "new_peer") EXCEPT
            !.call = r.call, !.peer = peer_address,
            !.dtls = IF listen_recovers(r.exc) THEN "recovered" ELSE "error",
            !.exc = IF listen_recovers(r.exc) THEN NoExc ELSE r.exc]
    ELSE [listen_returns(
            [listen_finally(r.w, c) EXCEPT
               !.conns[c].pending_peer_address =
                   listen_pending(peer_address, r.ret)],
            "new_peer") EXCEPT
            !.call = r.call, !.peer = peer_address, !.dtls = "success",
            !.ret = listen_pending(peer_address, r.ret)]

\* listen(), from the return of service() (s) on.
listen_serviced(c, s) ==
    IF s.exc # NoExc
    THEN IF listen_no_datagram(s.exc) THEN listen_returns(s.w, "no_datagram")
         ELSE [listen_returns(s.w, "error") EXCEPT !.exc = s.exc]
    ELSE IF s.ret = None THEN listen_returns(s.w, "known_peer")
    ELSE listen_dtls(c, s.ret,
                     DTLSv1_listen(
                       Called(listen_prepare(s.w, c, s.ret), "DTLSv1_listen",
                              s.w.conns[c].ssl),
                       s.w.conns[c].ssl))

listen(w, c, sockerr) ==
    listen_serviced(
      c, service(Called([w EXCEPT !.conns[c].pending_peer_address = None],
                        "service", None),
                 sockerr))

\* ----------------------------------------------------------------- __init__
\* Faulty variant: the trust anchors are checked first.
validate_args_certs_first(a) ==
    IF a.cert_reqs # CERT_NONE /\ ~ Truthy(a.ca_certs)
    THEN [type |-> "SSLError", code |-> "ERR_NO_CERTS"]
    ELSE IF \/ Truthy(a.keyfile) /\ ~ Truthy(a.certfile)
            \/ Truthy(a.certfile) /\ ~ Truthy(a.keyfile)
    THEN [type |-> "NameError", name |-> "ERR_BOTH_KEY_CERT_FILES"]
    ELSE IF a.server_side /\ ~ Truthy(a.keyfile)
    THEN [type |-> "NameError", name |-> "ERR_BOTH_KEY_CERT_FILES_SVR"]
    ELSE NoExc

\* Faulty variant: a server is not asked for its key.
validate_args_no_server_key(a) ==
    IF \/ Truthy(a.keyfile) /\ ~ Truthy(a.certfile)
       \/ Truthy(a.certfile) /\ ~ Truthy(a.keyfile)
    THEN [type |-> "NameError", name |-> "ERR_BOTH_KEY_CERT_FILES"]
    ELSE IF a.cert_reqs # CERT_NONE /\ ~ Truthy(a.ca_certs)
    THEN [type |-> "SSLError", code |-> "ERR_NO_CERTS"]
    ELSE NoExc

\* Constructor argument validation: the exception raised, or NoExc.  The
\* names ERR_BOTH_KEY_CERT_FILES and ERR_BOTH_KEY_CERT_FILES_SVR are not
\* bound in the module, so evaluating them raises NameError.
validate_args(a) ==
    IF \/ Truthy(a.keyfile) /\ ~ Truthy(a.certfile)
       \/ Truthy(a.certfile) /\ ~ Truthy(a.keyfile)
    THEN [type |-> "NameError", name |-> "ERR_BOTH_KEY_CERT_FILES"]
    ELSE IF a.server_side /\ ~ Truthy(a.keyfile)
    THEN [type |-> "NameError", name |-> "ERR_BOTH_KEY_CERT_FILES_SVR"]
    ELSE IF a.cert_reqs # CERT_NONE /\ ~ Truthy(a.ca_certs)
    THEN [type |-> "SSLError", code |-> "ERR_NO_CERTS"]
    ELSE NoExc

\* The attributes __init__ sets before it dispatches on the socket argument.
init_fields(a) ==
    [role |-> "new", sock |-> a.sock, rsock |-> None, udp_demux |-> FALSE,
     wbio |-> NoHandle, rbio |-> NoHandle, ctx |-> NoHandle,
     ssl |-> NoHandle, handshake_done |-> FALSE,
     keyfile |-> a.keyfile, certfile |-> a.certfile,
     cert_reqs |-> a.cert_reqs, ca_certs |-> a.ca_certs,
     do_handshake_on_connect |-> a.do_handshake_on_connect,
     suppress_ragged_eofs |-> a.suppress_ragged_eofs,
     is_listener |-> FALSE, listening |-> FALSE,
     listening_peer_address |-> None, pending_peer_address |-> None]

_config_ssl_ctx(w, ctx, verify_mode) ==
    [w EXCEPT !.ctxs[ctx].verify_mode = verify_mode,
              !.ctxs[ctx].read_ahead = 1]

InvalidSocketError == [type |-> "InvalidSocketError"]

Result(w, me, exc) == [w |-> w, me |-> me, exc |-> exc]

\* The handles the next allocations will return.
NextBio(w, n) == Len(w.bios) + n
NextCtx(w) == Len(w.ctxs) + 1
NextSsl(w) == Len(w.ssls) + 1

\* _init_server, the verify mode chosen from cert_reqs.
server_verify_mode(cert_reqs) ==
    IF cert_reqs = CERT_NONE THEN {}
    ELSE IF cert_reqs = CERT_OPTIONAL
    THEN {"SSL_VERIFY_PEER", "SSL_VERIFY_CLIENT_ONCE"}
    ELSE {"SSL_VERIFY_PEER", "SSL_VERIFY_CLIENT_ONCE",
          "SSL_VERIFY_FAIL_IF_NO_PEER_CERT"}

\* SSL_CTX_set_cookie_cb: the callbacks registered on the context call back
\* into the object with index id.
SSL_CTX_set_cookie_cb(w, ctx, id) == [w EXCEPT !.ctxs[ctx].cookie_cb = id]

\* _init_server: [w, me, exc].  id is the index the new object will have.
_init_server(w, me, id, peer_address) ==
    IF w.socks[me.sock].type # "dgram" \/ peer_address # None
    THEN Result(w, me, InvalidSocketError)
    ELSE Result(
           SSL_set_accept_state(
             SSL_new(
               SSL_CTX_set_cookie_cb(
                 _config_ssl_ctx(
                   SSL_CTX_set_session_cache_mode(
                     SSL_CTX_new(
                       BIO_new_dgram(
                         BIO_new_dgram(
                           get_connection([w EXCEPT !.demux.exists = TRUE],
                                          None),
                           me.sock),
                         Endpoint(None)),
                       "DTLSv1_server_method"),
                     NextCtx(w), SSL_SESS_CACHE_OFF),
                   NextCtx(w), server_verify_mode(me.cert_reqs)),
                 NextCtx(w), id),
               NextCtx(w)),
             NextSsl(w)),
           [me EXCEPT !.role = "listener", !.udp_demux = TRUE,
                      !.rsock = Endpoint(None), !.wbio = NextBio(w, 1),
                      !.rbio = NextBio(w, 2), !.ctx = NextCtx(w),
                      !.ssl = NextSsl(w), !.is_listener = TRUE],
           NoExc)

\* _init_client: [w, me, exc]; the caller runs connect() as post_init when
\* the socket is already connected.
_init_client(w, me) ==
    IF w.socks[me.sock].type # "dgram"
    THEN Result(w, me, InvalidSocketError)
    ELSE Result(
           SSL_set_connect_state(
             SSL_new(
               _config_ssl_ctx(
                 SSL_CTX_new(BIO_new_dgram(w, me.sock),
                             "DTLSv1_client_method"),
                 NextCtx(w),
                 IF me.cert_reqs = CERT_NONE THEN {}
                 ELSE {"SSL_VERIFY_PEER"}),
               NextCtx(w)),
             NextSsl(w)),
           [me EXCEPT !.role = "client", !.wbio = NextBio(w, 1),
                      !.rbio = NextBio(w, 1), !.ctx = NextCtx(w),
                      !.ssl = NextSsl(w)],
           NoExc)

\* A failed allocation (BIO_new_dgram or SSL_new returning NULL): the error
\* checker raises with the drained queue.
alloc_failed(w) ==
    raise_ssl_error(w, [ret |-> 0, cond |-> SSL_ERROR_NONE,
                        push |-> <<ERR_INTERNAL>>], FALSE)

\* Faulty variant: the Listener keeps the session it hands to the new object.
_copy_server_order_shared ==
    <<"get_connection", "wbio", "rbio", "set_peer", "inherit",
      "new_source_wbio", "new_source_rbio", "rebind">>

\* Faulty variant: the Listener's session is replaced before its new BIOs exist.
_copy_server_order_early ==
    <<"get_connection", "wbio", "rbio", "set_peer", "inherit",
      "new_source_ssl", "new_source_wbio", "new_source_rbio", "rebind">>

\* Faulty variant: the new object reads from the Listener's own endpoint.
_copy_server_rsock_shared(source) == None

\* _copy_server: the peer whose demux endpoint the new object reads from.
_copy_server_rsock(source) == source.pending_peer_address

\* Faulty variant: the write BIO of the new object is given no destination.
_copy_server_order_no_peer ==
    <<"get_connection", "wbio", "rbio", "inherit",
      "new_source_wbio", "new_source_rbio", "new_source_ssl", "rebind">>

\* The statements of _copy_server, in execution order.
_copy_server_order ==
    <<"get_connection", "wbio", "rbio", "set_peer", "inherit",
      "new_source_wbio", "new_source_rbio", "new_source_ssl", "rebind">>

\* One statement of _copy_server.  st = [w, me, nw, nr, exc]; src is the
\* Listener; the allocation named by fail fails.
_copy_server_step(name, st, src, fail) ==
    LET w == st.w
        source == w.conns[src]
        new_peer == source.pending_peer_address
        failed == alloc_failed(w)
    IN  IF name = fail
        THEN [st EXCEPT !.w = failed.w, !.exc = failed.exc]
        ELSE
        CASE name = "get_connection" ->
               [st EXCEPT !.w = get_connection(w, _copy_server_rsock(source)),
                          !.me.sock = source.sock,
                          !.me.udp_demux = TRUE,
                          !.me.rsock = Endpoint(_copy_server_rsock(source))]
          [] name = "wbio" ->
               [st EXCEPT !.w = BIO_new_dgram(w, st.me.sock),
                          !.me.wbio = Len(w.bios) + 1]
          [] name = "rbio" ->
               [st EXCEPT !.w = BIO_new_dgram(w, st.me.rsock),
                          !.me.rbio = Len(w.bios) + 1]
          [] name = "set_peer" ->
               [st EXCEPT !.w = BIO_dgram_set_peer(w, st.me.wbio, new_peer)]
          [] name = "inherit" ->
               [st EXCEPT !.me.ctx = source.ctx, !.me.ssl = source.ssl]
          [] name = "new_source_wbio" ->
               [st EXCEPT !.w = BIO_new_dgram(w, source.sock),
                          !.nw = Len(w.bios) + 1]
          [] name = "new_source_rbio" ->
               [st EXCEPT !.w = BIO_new_dgram(w, source.rsock),
                          !.nr = Len(w.bios) + 1]
          [] name = "new_source_ssl" ->
               [st EXCEPT !.w = [SSL_set_accept_state(
                                    SSL_new(w, st.me.ctx), Len(w.ssls) + 1)
                                 EXCEPT !.conns[src].ssl = Len(w.ssls) + 1]]
          [] name = "rebind" ->
               [st EXCEPT !.w = disown(disown(
                                  SSL_set_bio(
                                    [w EXCEPT !.conns[src].rbio = st.nr,
                                              !.conns[src].wbio = st.nw],
                                    source.ssl, st.nr, st.nw),
                                  st.nr), st.nw)]

RECURSIVE RunSteps(_, _, _, _)
RunSteps(order, st, src, fail) ==
    IF order = <<>> \/ st.exc # NoExc THEN st
    ELSE RunSteps(Tail(order),
                  _copy_server_step(Head(order), st, src, fail), src, fail)

\* An object whose constructor or first handshake raised is dropped: the
\* wrappers only it referenced free what they still own, and a session no
\* surviving object references is freed.
Referenced(w, ssl) == \E i \in DOMAIN w.conns : w.conns[i].ssl = ssl
DropSsl(w, ssl) ==
    IF ssl # NoHandle /\ ~ Referenced(w, ssl) THEN SSL_free(w, ssl) ELSE w
Discard(w, me, nw, nr) ==
    DropSsl(DropBio(DropBio(DropBio(DropBio(w, me.wbio), me.rbio), nw), nr),
            me.ssl)

\* _copy_server, leaving: st is the state after the last statement run.
_copy_server_end(st) ==
    IF st.exc # NoExc
    THEN Result(Discard(st.w, st.me, st.nw, st.nr), st.me, st.exc)
    ELSE Result(st.w, st.me, NoExc)

\* _copy_server: [w, me, exc].
_copy_server(w, me, src, fail) ==
    _copy_server_end(
      RunSteps(_copy_server_order,
               [w |-> w, me |-> [me EXCEPT !.role = "accepted"],
                nw |-> NoHandle, nr |-> NoHandle, exc |-> NoExc],
               src, fail))

\* ---------------------------------------------------------------- handshake
\* Reading through a BIO bound to a demux endpoint takes what is queued there.
RECURSIVE DrainEndpoint(_, _)
DrainEndpoint(w, key) ==
    IF EndpointHas(w, key) THEN DrainEndpoint(EndpointPop(w, key), key)
    ELSE w

ReadsEndpoint(w, me) == me.udp_demux
LibraryReads(w, me) ==
    IF ReadsEndpoint(w, me) THEN DrainEndpoint(w, BioKey(w, me.rbio)) ELSE w

\* get_socket(inbound)
get_socket(me, inbound) ==
    IF inbound /\ me.rsock # None THEN me.rsock ELSE me.sock

\* The outcomes the crypto library can report for one I/O call on me:
\* success, WANT_READ (only on a socket that does not block), a syscall
\* failure with result -1 or 0, a protocol error with an error-queue entry.
CallOk == [ret |-> 1, cond |-> SSL_ERROR_NONE, push |-> <<>>]
CallWantRead == [ret |-> 0 - 1, cond |-> SSL_ERROR_WANT_READ, push |-> <<>>]
CallSyscall == [ret |-> 0 - 1, cond |-> SSL_ERROR_SYSCALL, push |-> <<>>]
CallEof == [ret |-> 0, cond |-> SSL_ERROR_SYSCALL, push |-> <<>>]
CallFatal == [ret |-> 0 - 1, cond |-> SSL_ERROR_SSL,
              push |-> <<ERR_INTERNAL>>]
IoCalls(w, me) ==
    {CallOk, CallSyscall, CallEof, CallFatal}
    \cup (IF gettimeout(w, get_socket(me, TRUE)) # TimeoutNone
          THEN {CallWantRead} ELSE {})

\* SSL_read and SSL_write can also report the peer's close-notify on a
\* negotiated session (result 0, ZERO_RETURN) and, on a socket that does not
\* block, WANT_WRITE.
CallZeroReturn == [ret |-> 0, cond |-> SSL_ERROR_ZERO_RETURN, push |-> <<>>]
CallWantWrite == [ret |-> 0 - 1, cond |-> SSL_ERROR_WANT_WRITE, push |-> <<>>]
ReadCalls(w, me) ==
    IoCalls(w, me)
    \cup (IF w.ssls[me.ssl].handshake = "done"
          THEN {CallZeroReturn} ELSE {})
    \cup (IF gettimeout(w, get_socket(me, TRUE)) # TimeoutNone
          THEN {CallWantWrite} ELSE {})

\* SSL_read and SSL_write on a session set to accept or connect state
\* negotiate the session first when that has not been done.
SSL_negotiated(w, ssl) == [w EXCEPT !.ssls[ssl].handshake = "done"]

\* do_handshake(), the except clause: the exception that leaves the method.
do_handshake_error(err, timeout) ==
    IF err.ssl_error = SSL_ERROR_WANT_READ /\ TruthyTimeout(timeout)
    THEN [type |-> "SSLError", code |-> "ERR_HANDSHAKE_TIMEOUT"]
    ELSE IF err.ssl_error = SSL_ERROR_SYSCALL /\ err.result = 0 - 1
    THEN [type |-> "SSLError", code |-> "ERR_PORT_UNREACHABLE"]
    ELSE err

\* Faulty variant: the flag is set whether or not the handshake succeeded.
do_handshake_checked_always(me, timeout, chk) ==
    IF chk.exc # NoExc
    THEN Result(chk.w, [me EXCEPT !.handshake_done = TRUE],
                do_handshake_error(chk.exc, timeout))
    ELSE Result([chk.w EXCEPT !.ssls[me.ssl].handshake = "done"],
                [me EXCEPT !.handshake_done = TRUE], NoExc)

\* do_handshake(), from the return of SSL_do_handshake (chk) on.
do_handshake_checked(me, timeout, chk) ==
    IF chk.exc # NoExc
    THEN Result(chk.w, me, do_handshake_error(chk.exc, timeout))
    ELSE Result([chk.w EXCEPT !.ssls[me.ssl].handshake = "done"],
                [me EXCEPT !.handshake_done = TRUE], NoExc)

\* do_handshake() on the object me (not necessarily stored yet): [w, me, exc].
do_handshake_on(w, me, call) ==
    do_handshake_checked(
      me, gettimeout(w, get_socket(me, TRUE)),
      errcheck_ord(LibraryReads(_check_nbio(w, me), me), call))

\* The object r.me takes its place c among the objects.
StoreAt(c, r) == [w |-> [r.w EXCEPT !.conns[c] = r.me], exc |-> r.exc]

\* do_handshake() on a stored object.
do_handshake(w, c, call) == StoreAt(c, do_handshake_on(w, w.conns[c], call))

\* Faulty variant: the write BIO is not told the peer address.
reconnect_from_no_peer(w, me, source) ==
    Result(
      SSL_set_accept_state(
        SSL_new(
          BIO_new_dgram(BIO_new_dgram(w, source.wsock), source.rsock),
          source.ctx),
        NextSsl(w)),
      [me EXCEPT !.role = "rewrapped", !.sock = source.wsock,
                 !.udp_demux = source.demux, !.rsock = source.rsock,
                 !.ctx = source.ctx, !.wbio = NextBio(w, 1),
                 !.rbio = NextBio(w, 2), !.ssl = NextSsl(w)],
      NoExc)

\* _reconnect_unwrapped: [w, me, exc]; do_handshake is the post_init.
reconnect_from(w, me, source) ==
    Result(
      SSL_set_accept_state(
        SSL_new(
          BIO_dgram_set_peer(
            BIO_new_dgram(BIO_new_dgram(w, source.wsock), source.rsock),
            NextBio(w, 1), source.peer_address),
          source.ctx),
        NextSsl(w)),
      [me EXCEPT !.role = "rewrapped", !.sock = source.wsock,
                 !.udp_demux = source.demux, !.rsock = source.rsock,
                 !.ctx = source.ctx, !.wbio = NextBio(w, 1),
                 !.rbio = NextBio(w, 2), !.ssl = NextSsl(w)],
      NoExc)

_reconnect_unwrapped(w, me, u) == reconnect_from(w, me, w.unwrapped[u])

\* Faulty variant: the wrappers keep their handles after the binding.
init_bind_owned(w, me) == SSL_set_bio(w, me.ssl, me.rbio, me.wbio)

\* __init__, after the dispatch: bind the BIOs to the session, disown the
\* wrappers.
init_bind(w, me) ==
    disown(disown(SSL_set_bio(w, me.ssl, me.rbio, me.wbio), me.rbio),
           me.wbio)

BIO_dgram_set_connected(w, bio, peer_address) ==
    [w EXCEPT !.bios[bio].peer = peer_address]

\* connect(peer_address) on the object me: [w, me, exc].
connect_on(w, me, peer_address, call) ==
    IF me.do_handshake_on_connect
    THEN do_handshake_on(
           BIO_dgram_set_connected(
             [w EXCEPT !.socks[me.sock].peer = peer_address],
             me.wbio, peer_address),
           me, call)
    ELSE Result(BIO_dgram_set_connected(
                  [w EXCEPT !.socks[me.sock].peer = peer_address],
                  me.wbio, peer_address),
                me, NoExc)

Store(w, me) == [w EXCEPT !.conns = Append(@, me)]

\* __init__, from the return of the initialiser (r) on: bind and disown,
\* then run the post_init the initialiser returned, if any.
init_post(r, post, peer_address, call) ==
    IF r.exc # NoExc THEN r
    ELSE IF post = "connect"
    THEN connect_on(init_bind(r.w, r.me), r.me, peer_address, call)
    ELSE IF post = "do_handshake"
    THEN do_handshake_on(init_bind(r.w, r.me), r.me, call)
    ELSE Result(init_bind(r.w, r.me), r.me, NoExc)

\* The constructor returns the object (it gets the next index), or raises and
\* the object is dropped: [w, exc, id].
Constructed(r) ==
    IF r.exc # NoExc
    THEN [w |-> Discard(r.w, r.me, NoHandle, NoHandle), exc |-> r.exc,
          id |-> NoHandle]
    ELSE [w |-> Store(r.w, r.me), exc |-> NoExc, id |-> Len(r.w.conns) + 1]

\* sock.getpeername(), None when the socket is not connected.
getpeername(w, sock) == w.socks[sock].peer

\* SSLConnection(sock, ...) on a plain socket: [w, exc, id].
SSLConnection_socket(w, a, call) ==
    IF validate_args(a) # NoExc
    THEN [w |-> w, exc |-> validate_args(a), id |-> NoHandle]
    ELSE IF a.server_side
    THEN Constructed(
           init_post(_init_server(w, init_fields(a), Len(w.conns) + 1,
                                  getpeername(w, a.sock)),
                     "none", None, call))
    ELSE Constructed(
           init_post(_init_client(w, init_fields(a)),
                     IF getpeername(w, a.sock) # None THEN "connect"
                     ELSE "none",
                     getpeername(w, a.sock), call))

\* SSLConnection(unwrapped, ...): [w, exc, id].
SSLConnection_unwrapped(w, a, u, call) ==
    IF validate_args(a) # NoExc
    THEN [w |-> w, exc |-> validate_args(a), id |-> NoHandle]
    ELSE Constructed(
           init_post(_reconnect_unwrapped(w, init_fields(a), u),
                     IF a.do_handshake_on_connect THEN "do_handshake"
                     ELSE "none",
                     None, call))

\* SSLConnection(listener, ...), as accept() calls it: [w, me, exc].
SSLConnection_listener(w, a, src, fail) ==
    IF validate_args(a) # NoExc
    THEN Result(w, init_fields(a), validate_args(a))
    ELSE init_post(_copy_server(w, init_fields(a), src, fail), "none", None,
                   CallOk)

\* ------------------------------------------------------------------- accept
accept_args(me) ==
    [sock |-> me.sock, keyfile |-> me.keyfile, certfile |-> me.certfile,
     server_side |-> TRUE, cert_reqs |-> me.cert_reqs,
     ca_certs |-> me.ca_certs,
     do_handshake_on_connect |-> me.do_handshake_on_connect,
     suppress_ragged_eofs |-> me.suppress_ragged_eofs]

\* What accept() hands back: [w, exc, ret, peer, listened, constructed, svc,
\* dtls]; ret is the new object's index, NoHandle when accept returns None
\* or raises; listened, svc and dtls tell of the listen() it ran, if any;
\* constructed tells that the new object's constructor returned.
accept_returns(w, l) ==
    [w |-> w, exc |-> NoExc, ret |-> NoHandle, peer |-> None,
     listened |-> l.listened, constructed |-> FALSE, svc |-> l.svc,
     dtls |-> l.dtls]

\* accept(), from the return of new_conn.do_handshake() (hs) on.
accept_handshaken(l, new_peer, hs) ==
    IF hs.exc # NoExc
    THEN [accept_returns(Discard(hs.w, hs.me, NoHandle, NoHandle), l) EXCEPT
            !.exc = hs.exc, !.constructed = TRUE]
    ELSE [accept_returns(Store(hs.w, hs.me), l) EXCEPT
            !.ret = Len(hs.w.conns) + 1, !.peer = new_peer,
            !.constructed = TRUE]

\* Faulty variant: the pending peer is cleared only after the child's
\* handshake.
accept_constructed_clear_late(c, l, new_conn, call) ==
    IF new_conn.exc # NoExc
    THEN [accept_returns(new_conn.w, l) EXCEPT !.exc = new_conn.exc]
    ELSE accept_handshaken(
           l, new_conn.w.conns[c].pending_peer_address,
           IF new_conn.w.conns[c].do_handshake_on_connect
           THEN LET hs == do_handshake_on(new_conn.w, new_conn.me, call)
                IN  IF hs.exc # NoExc THEN hs
                    ELSE [hs EXCEPT
                            !.w.conns[c].pending_peer_address = None]
           ELSE Result(
                  [new_conn.w EXCEPT !.conns[c].pending_peer_address = None],
                  new_conn.me, NoExc))

\* accept(), from the return of the constructor (new_conn) on.
accept_constructed(c, l, new_conn, call) ==
    IF new_conn.exc # NoExc
    THEN [accept_returns(new_conn.w, l) EXCEPT !.exc = new_conn.exc]
    ELSE accept_handshaken(
           l, new_conn.w.conns[c].pending_peer_address,
           IF new_conn.w.conns[c].do_handshake_on_connect
           THEN do_handshake_on(
                  [new_conn.w EXCEPT !.conns[c].pending_peer_address = None],
                  new_conn.me, call)
           ELSE Result(
                  [new_conn.w EXCEPT !.conns[c].pending_peer_address = None],
                  new_conn.me, NoExc))

\* accept(), from the first statement after the test of the pending peer.
accept_pending(w, c, l, fail, call) ==
    accept_constructed(
      c, l, SSLConnection_listener(w, accept_args(w.conns[c]), c, fail),
      call)

\* Faulty variant: accept() goes on to create the child although listen()
\* returned no peer.
accept_listened_unchecked(c, l, fail, call) ==
    IF l.exc # NoExc
    THEN [accept_returns(l.w, l) EXCEPT !.exc = l.exc]
    ELSE accept_pending(l.w, c, l, fail, call)

\* accept(), from the return of listen() (l) on.
accept_listened(c, l, fail, call) ==
    IF l.exc # NoExc
    THEN [accept_returns(l.w, l) EXCEPT !.exc = l.exc]
    ELSE IF l.ret = None
    THEN accept_returns(l.w, l)
    ELSE accept_pending(l.w, c, l, fail, call)

accept(w, c, sockerr, fail, call) ==
    IF w.conns[c].pending_peer_address = None
    THEN accept_listened(c, listen(w, c, sockerr) @@ [listened |-> TRUE],
                         fail, call)
    ELSE accept_pending(
           w, c, [listened |-> FALSE, svc |-> "none", dtls |-> "none"],
           fail, call)

\* ----------------------------------------------------------------- shutdown
\* Faulty variant: the unwrapped socket reads from the server socket.
_UnwrappedSocket_wsock(wsock, rsock, dmx, ctx, peer_address) ==
    [wsock |-> wsock, rsock |-> wsock, demux |-> dmx, ctx |-> ctx,
     peer_address |-> peer_address]

\* _UnwrappedSocket(wsock, rsock, demux, ctx, peer_address)
_UnwrappedSocket(wsock, rsock, dmx, ctx, peer_address) ==
    [wsock |-> wsock, rsock |-> rsock, demux |-> dmx, ctx |-> ctx,
     peer_address |-> peer_address]

\* shutdown(): [w, exc, ret, calls]; ret is "None" for a Listener,
\* "unwrapped" when a new _UnwrappedSocket (the last of w.unwrapped) is
\* returned, "sock" when the client's own socket is returned; calls is the
\* number of SSL_shutdown calls made.
shutdown_returns(w, exc, ret, calls) ==
    [w |-> w, exc |-> exc, ret |-> ret, calls |-> calls]

\* shutdown(), after the try statement; done is its outcome.
shutdown_done(me, calls, done) ==
    IF done.exc # NoExc
    THEN shutdown_returns(done.w, done.exc, "None", calls)
    ELSE IF me.udp_demux
    THEN shutdown_returns(
           [done.w EXCEPT
              !.ssls[me.ssl].handshake = "closed",
              !.unwrapped = Append(@,
                 _UnwrappedSocket(me.sock, me.rsock, me.udp_demux, me.ctx,
                                  BIO_dgram_get_peer(done.w, me.wbio)))],
           NoExc, "unwrapped", calls)
    ELSE shutdown_returns([done.w EXCEPT !.ssls[me.ssl].handshake = "closed"],
                          NoExc, "sock", calls)

\* Faulty variant: every failure of the first call is followed by a second.
shutdown_first_retry(me, first, call2) ==
    IF first.exc # NoExc
    THEN shutdown_done(me, 2, errcheck_ord(first.w, call2))
    ELSE shutdown_done(me, 1, first)

\* shutdown(), the except clause; first is the first call's outcome.
shutdown_first(me, first, call2) ==
    IF first.exc # NoExc /\ first.exc.result = 0
    THEN shutdown_done(me, 2, errcheck_ord(first.w, call2))
    ELSE shutdown_done(me, 1, first)

\* Faulty variant: the Listener is shut down like an association.
shutdown_listener(w, c, call1, call2) ==
    shutdown_first(
      w.conns[c],
      errcheck_ord(LibraryReads(_check_nbio(w, w.conns[c]), w.conns[c]),
                   call1),
      call2)

shutdown(w, c, call1, call2) ==
    IF w.conns[c].is_listener THEN shutdown_returns(w, NoExc, "None", 0)
    ELSE shutdown_first(
           w.conns[c],
           errcheck_ord(LibraryReads(_check_nbio(w, w.conns[c]), w.conns[c]),
                        call1),
           call2)

\* ----------------------------------------------------------- handle_timeout
\* SSL_ctrl(ssl, DTLS_CTRL_HANDLE_TIMEOUT): 0 when no timer had expired, 1
\* when the flight was retransmitted, -1 (with an error-queue entry) when
\* the retransmission failed or too many timeouts occurred.
TimeoutCalls ==
    {[ret |-> 0, cond |-> SSL_ERROR_NONE, push |-> <<>>],
     [ret |-> 1, cond |-> SSL_ERROR_NONE, push |-> <<>>],
     [ret |-> 0 - 1, cond |-> SSL_ERROR_SSL,
      push |-> <<ERR_READ_TIMEOUT_EXPIRED>>]}

\* DTLSv1_handle_timeout(ssl): [w, exc, ret].
DTLSv1_handle_timeout(w, call) ==
    IF call.ret = 0 THEN [w |-> w, exc |-> NoExc, ret |-> "False"]
    ELSE IF call.ret = 1 THEN [w |-> w, exc |-> NoExc, ret |-> "True"]
    ELSE errcheck_p(w, IF call.ret > 0 THEN [call EXCEPT !.ret = 0 - 10]
                       ELSE call)
         @@ [ret |-> "None"]

handle_timeout(w, c, call) == DTLSv1_handle_timeout(w, call)

\* ------------------------------------------------------------------- read
\* read(len): [w, exc, ret]; one datagram is taken from the endpoint when the
\* library call succeeds.  SSL_read is checked by errcheck_ord and read()
\* catches nothing: _suppress_ragged_eofs is never consulted.
read_checked(tag, chk) ==
    chk @@ [ret |-> IF chk.exc = NoExc THEN tag ELSE None]

read(w, c, call) ==
    read_checked(
      Tag(EndpointHead(w, BioKey(w, w.conns[c].rbio))),
      errcheck_ord(
        IF call.ret > 0
        THEN SSL_negotiated(
               EndpointPop(_check_nbio(w, w.conns[c]),
                           BioKey(w, w.conns[c].rbio)),
               w.conns[c].ssl)
        ELSE _check_nbio(w, w.conns[c]),
        call))

\* write(data): [w, exc, ret]; ret is the number of bytes written.
write_checked(n, chk) ==
    chk @@ [ret |-> IF chk.exc = NoExc THEN n ELSE None]

write(w, c, call) ==
    write_checked(
      call.ret,
      errcheck_ord(
        IF call.ret > 0
        THEN SSL_negotiated(_check_nbio(w, w.conns[c]), w.conns[c].ssl)
        ELSE _check_nbio(w, w.conns[c]),
        call))

\* ----------------------------------------------------------------- cipher
\* SSL_get_current_cipher: the cipher of a negotiated session, else null,
\* which errcheck_FuncParam raises on.
SSL_get_current_cipher(w, ssl) ==
    errcheck_p(w, [ret |-> IF w.ssls[ssl].handshake \in {"done", "closed"}
                           THEN 1 ELSE 0,
                   cond |-> SSL_ERROR_NONE, push |-> <<>>])

cipher_result(chk) ==
    [exc |-> chk.exc,
     ret |-> IF chk.exc = NoExc THEN <<"name", "version", "bits">> ELSE None]

\* Faulty variant: the flag is not consulted.
cipher_of_session(w, c) ==
    IF w.ssls[w.conns[c].ssl].handshake \notin {"done", "closed"}
    THEN [exc |-> NoExc, ret |-> None]
    ELSE cipher_result(SSL_get_current_cipher(w, w.conns[c].ssl))

\* cipher(): [exc, ret]; None until do_handshake() has set _handshake_done,
\* then the (name, version, bits) of the session's current cipher.
cipher(w, c) ==
    IF ~ w.conns[c].handshake_done
    THEN [exc |-> NoExc, ret |-> None]
    ELSE cipher_result(SSL_get_current_cipher(w, w.conns[c].ssl))

\* ------------------------------------------------------------ getpeercert
\* The certificates a peer can present; None when it presented none.
PeerCerts == {<<"x509", "peer">>}

\* SSL_get_peer_certificate: null, on which errcheck_FuncParam raises, when
\* no certificate was received.
SSL_get_peer_certificate(w, cert) ==
    errcheck_p(w, [ret |-> IF cert = None THEN 0 ELSE 1,
                   cond |-> SSL_ERROR_NONE, push |-> <<>>])

\* i2d_X509: the DER encoding; decode_cert: the certificate dictionary.
i2d_X509(cert) == <<"DER", cert>>
decode_cert(cert) == <<"dict", cert>>
EmptyDict == <<"dict">>

\* Faulty variant: an unverified certificate is decoded all the same.
getpeercert_decoded(me, binary_form, cert, chk) ==
    [w |-> chk.w, exc |-> NoExc,
     ret |-> IF chk.exc # NoExc THEN None
             ELSE IF binary_form THEN i2d_X509(cert)
             ELSE decode_cert(cert)]

\* getpeercert(), from the return of SSL_get_peer_certificate (chk) on.
getpeercert_checked(me, binary_form, cert, chk) ==
    [w |-> chk.w, exc |-> NoExc,
     ret |-> IF chk.exc # NoExc THEN None
             ELSE IF binary_form THEN i2d_X509(cert)
             ELSE IF me.cert_reqs = CERT_NONE THEN EmptyDict
             ELSE decode_cert(cert)]

\* getpeercert(binary_form): [w, exc, ret]; cert is the certificate the
\* session holds.
getpeercert(w, c, binary_form, cert) ==
    getpeercert_checked(w.conns[c], binary_form, cert,
                        SSL_get_peer_certificate(w, cert))

\* ------------------------------------------------------- _UnwrappedSocket
\* The methods of an unwrapped socket u: [via, dst, exc], the socket a
\* datagram leaves on and its destination (None when nothing is sent).
u_result(via, dst, exc) == [via |-> via, dst |-> dst, exc |-> exc]

\* send(data, flags): self._wsock.sendto(data, flags, self._peer_address)
u_send(u) == u_result(u.wsock, u.peer_address, NoExc)

\* sendall(data, flags): send() until everything is out.
u_sendall(u) == u_send(u)

\* sendto(data, flags_or_addr, addr): self._wsock.sendto(data,
\* flags_or_addr, addr), the three-argument form of socket.sendto; without
\* addr it is given None as the address and raises TypeError.
u_sendto(u, addr) ==
    IF addr = None
    THEN u_result(u.wsock, None, [type |-> "TypeError"])
    ELSE u_result(u.wsock, addr, NoExc)

\* connect(addr) always raises; connect_ex is the same function.
u_connect(u, addr) == u_result(u.wsock, None, [type |-> "ValueError"])
u_connect_ex(u, addr) == u_connect(u, addr)

\* ====================================================================== Init
RawSocks == {SrvSock, CliSock, TcpSock}
Timeouts == {TimeoutNone, TimeoutZero, TimeoutSome}

\* The state before the application has constructed anything; t is the
\* timeout it has set on its server socket.
InitWith(t) ==
    /\ conns = <<>>
    /\ ssls = <<>>
    /\ bios = <<>>
    /\ ctxs = <<>>
    /\ errq = <<>>
    /\ socks = [s \in RawSocks |->
                  [type |-> IF s = TcpSock THEN "stream" ELSE "dgram",
                   peer |-> None,
                   timeout |-> IF s = SrvSock THEN t ELSE TimeoutNone]]
    /\ demux = NoDemux
    /\ sockq = <<>>
    /\ nseq = 0
    /\ yielded = <<>>
    /\ sent = {}
    /\ unwrapped = <<>>
    /\ nfault = 0
    /\ last = [op |-> "none"]

Init == \E t \in Timeouts : InitWith(t)

\* =================================================================== actions
CtorArgs ==
    [sock : RawSocks, keyfile : FileArgs, certfile : FileArgs,
     server_side : BOOLEAN,
     cert_reqs : {CERT_NONE, CERT_OPTIONAL, CERT_REQUIRED},
     ca_certs : FileArgs, do_handshake_on_connect : BOOLEAN,
     suppress_ragged_eofs : BOOLEAN]

\* The arguments the application uses in the runs that go on to exchange
\* datagrams: a server with key material, with and without handshake on
\* connect.
SetupArgs ==
    {a \in CtorArgs :
       /\ a.sock = SrvSock
       /\ a.server_side
       /\ a.keyfile = "file.pem"
       /\ a.certfile = "file.pem"
       /\ a.cert_reqs = CERT_NONE
       /\ a.ca_certs = NoFile
       /\ a.suppress_ragged_eofs}

Listeners == {c \in DOMAIN conns : conns[c].is_listener}
Associations == {c \in DOMAIN conns : ~ conns[c].is_listener}
Routed == {c \in Associations : conns[c].udp_demux}

\* An association is live until its shutdown() has completed; the
\* application makes no further call on an object it has shut down.
Live == {c \in Associations : ssls[conns[c].ssl].handshake # "closed"}

\* A client reaches its peer once its socket is connected; the accepted and
\* rewrapped associations of a server have their peer from the start.
Connected(c) ==
    conns[c].role = "client" => socks[conns[c].sock].peer # None

\* The cookies this process issues: the secret lives as long as the process,
\* so a ClientHello may echo a cookie from any earlier exchange.
IssuedCookies == {HMAC(rnd_key, Str(p)) : p \in Peers}

\* A datagram reaches the server socket.  A ClientHello may echo a cookie
\* issued to any peer, or carry one made without the secret.
Arrive(src, kind, cookie) ==
    /\ demux.exists
    /\ nseq < MaxDgrams
    /\ IF kind = "hello_cookie"
       THEN cookie \in IssuedCookies \cup {ForgedCookie(src)}
       ELSE cookie = None
    /\ sockq' = Append(sockq, [src |-> src, kind |-> kind,
                               cookie |-> cookie, seq |-> nseq + 1])
    /\ nseq' = nseq + 1
    /\ last' = [op |-> "arrive"]
    /\ UNCHANGED <<conns, ssls, bios, ctxs, errq, socks, demux, yielded,
                   sent, unwrapped, nfault>>

\* The application constructs an SSLConnection on one of its sockets.
Construct(a, call) ==
    /\ Len(conns) < MaxConns
    /\ a.server_side /\ a.sock # TcpSock => a.sock = SrvSock /\ ~ demux.exists
    /\ \E r \in {SSLConnection_socket(World, a, call)} :
           /\ Install(r.w)
           /\ last' = [op |-> "init", args |-> a, exc |-> r.exc,
                       ret |-> r.id]
    /\ UNCHANGED <<nseq, nfault>>

\* service() on a blocking socket with nothing to read does not return.
ServiceReturns(sockerr) ==
    \/ sockerr # "none"
    \/ sockq # <<>>
    \/ gettimeout(World, SrvSock) # TimeoutNone

SockErrs == {"none", "ECONNRESET"}

Listen(c, sockerr) ==
    /\ c \in Listeners
    /\ ServiceReturns(sockerr)
    /\ \E r \in {listen(World, c, sockerr)} :
           /\ Install(r.w)
           /\ last' = [op |-> "listen", conn |-> c, exc |-> r.exc,
                       ret |-> r.ret, svc |-> r.svc, dtls |-> r.dtls,
                       call |-> r.call, peer |-> r.peer, log |-> r.w.log]
    /\ UNCHANGED <<nseq, nfault>>

AllocSites ==
    {"none", "wbio", "rbio", "new_source_wbio", "new_source_rbio",
     "new_source_ssl"}

Accept(c, sockerr, fail, call) ==
    /\ c \in Listeners
    /\ Len(conns) < MaxConns
    /\ IF conns[c].pending_peer_address = None
       THEN ServiceReturns(sockerr) ELSE sockerr = "none"
    /\ call # CallWantRead
    /\ fail # "none" => nfault < MaxFaults /\ sockerr = "none" /\ call = CallOk
    /\ \E r \in {accept(World, c, sockerr, fail, call)} :
           /\ fail # "none" => r.exc # NoExc /\ ~ r.constructed
                                /\ (r.listened => r.dtls = "success")
           /\ ~ (r.constructed /\ conns[c].do_handshake_on_connect)
                => call = CallOk
           /\ Install(r.w)
           /\ last' = [op |-> "accept", conn |-> c, exc |-> r.exc,
                       ret |-> r.ret, peer |-> r.peer,
                       listened |-> r.listened,
                       constructed |-> r.constructed, svc |-> r.svc,
                       dtls |-> r.dtls, fail |-> fail]
           /\ nfault' = IF fail # "none" THEN nfault + 1 ELSE nfault
    /\ UNCHANGED nseq

DoHandshake(c, call) ==
    /\ c \in Live
    /\ call \in IoCalls(World, conns[c])
    /\ call.ret > 0 => Connected(c)
    /\ \E r \in {do_handshake(World, c, call)} :
           /\ Install(r.w)
           /\ last' = [op |-> "do_handshake", conn |-> c, exc |-> r.exc,
                       call |-> call,
                       timeout |-> gettimeout(World,
                                              get_socket(conns[c], TRUE))]
    /\ UNCHANGED <<nseq, nfault>>

Read(c, call) ==
    /\ c \in Live
    /\ call \in ReadCalls(World, conns[c])
    /\ call.ret > 0 => /\ c \in Routed
                       /\ EndpointHas(World, BioKey(World, conns[c].rbio))
    /\ \E r \in {read(World, c, call)} :
           /\ Install(r.w)
           /\ last' = [op |-> "read", conn |-> c, exc |-> r.exc,
                       ret |-> r.ret, call |-> call]
    /\ UNCHANGED <<nseq, nfault>>

Shutdown(c, call1, call2) ==
    /\ c \in DOMAIN conns
    /\ IF conns[c].is_listener THEN call1 = CallOk /\ call2 = CallOk
       ELSE /\ c \in Live
            /\ call1 \in IoCalls(World, conns[c])
            /\ call2 \in IoCalls(World, conns[c])
            /\ call1.ret # 0 => call2 = CallOk
            /\ call1.ret >= 0 => Connected(c)
            /\ Len(unwrapped) < MaxUnwrapped
    /\ \E r \in {shutdown(World, c, call1, call2)} :
           /\ Install(r.w)
           /\ last' = [op |-> "shutdown", conn |-> c, exc |-> r.exc,
                       ret |-> r.ret, calls |-> r.calls,
                       call1 |-> call1, call2 |-> call2]
    /\ UNCHANGED <<nseq, nfault>>

\* The application wraps an unwrapped socket again.
Rewrap(u, a, call) ==
    /\ u \in DOMAIN unwrapped
    /\ Cardinality({c \in DOMAIN conns : conns[c].role = "rewrapped"})
         < MaxRewraps
    /\ a.sock = SrvSock
    /\ call # CallWantRead
         \/ gettimeout(World, unwrapped[u].rsock) # TimeoutNone
    /\ \E r \in {SSLConnection_unwrapped(World, a, u, call)} :
           /\ Install(r.w)
           /\ last' = [op |-> "rewrap", args |-> a, exc |-> r.exc,
                       ret |-> r.id, from |-> u]
    /\ UNCHANGED <<nseq, nfault>>

\* The application handles the timers of its associations.
HandleTimeout(c, call) ==
    /\ c \in Live
    /\ call.ret # 0 => Connected(c)
    /\ call.ret < 0 => Len(errq) < MaxErrQueue
    /\ \E r \in {handle_timeout(World, c, call)} :
           /\ Install(r.w)
           /\ last' = [op |-> "handle_timeout", conn |-> c, exc |-> r.exc,
                       ret |-> r.ret, call |-> call]
    /\ UNCHANGED <<nseq, nfault>>

\* The application writes on an association.
Write(c, call) ==
    /\ c \in Live
    /\ call \in ReadCalls(World, conns[c])
    /\ call.ret > 0 => Connected(c)
    /\ \E r \in {write(World, c, call)} :
           /\ Install(r.w)
           /\ last' = [op |-> "write", conn |-> c, exc |-> r.exc,
                       ret |-> r.ret, call |-> call]
    /\ UNCHANGED <<nseq, nfault>>

\* The application connects a client it constructed unconnected.
Connect(c, peer_address, call) ==
    /\ c \in Live
    /\ conns[c].role = "client"
    /\ socks[conns[c].sock].peer = None
    /\ call \in IoCalls(World, conns[c])
    /\ ~ conns[c].do_handshake_on_connect => call = CallOk
    /\ \E r \in {StoreAt(c, connect_on(World, conns[c], peer_address, call))} :
           /\ Install(r.w)
           /\ last' = [op |-> "connect", conn |-> c, exc |-> r.exc]
    /\ UNCHANGED <<nseq, nfault>>

\* The application changes the timeout of the socket an association reads.
SetTimeout(c, t) ==
    /\ c \in Live
    /\ gettimeout(World, get_socket(conns[c], TRUE)) # t
    /\ socks' = [socks EXCEPT ![get_socket(conns[c], TRUE)].timeout = t]
    /\ last' = [op |-> "settimeout", conn |-> c, timeout |-> t]
    /\ UNCHANGED <<conns, ssls, bios, ctxs, errq, demux, sockq, nseq, yielded,
                   sent, unwrapped, nfault>>

\* The application asks for the peer's certificate; a session holds one only
\* once it is negotiated.
GetPeerCert(c, binary_form, cert) ==
    /\ c \in Live
    /\ cert # None => ssls[conns[c].ssl].handshake = "done"
    /\ \E r \in {getpeercert(World, c, binary_form, cert)} :
           /\ Install(r.w)
           /\ last' = [op |-> "getpeercert", conn |-> c, exc |-> r.exc,
                       ret |-> r.ret, binary_form |-> binary_form,
                       cert |-> cert]
    /\ UNCHANGED <<nseq, nfault>>

\* pending(): the number of bytes the session has buffered, as SSL_pending
\* reports it.
pending(w, c, n) == [w |-> w, exc |-> NoExc, ret |-> n]

\* DTLSv1_get_timeout(ssl): the timedelta the library filled in, None when
\* the control call did not return 1.
DTLSv1_get_timeout(ret, tv) ==
    IF ret # 1 THEN None ELSE <<"timedelta", tv>>

get_timeout(w, c, ret, tv) ==
    [w |-> w, exc |-> NoExc, ret |-> DTLSv1_get_timeout(ret, tv)]

Pending(c, n) ==
    /\ c \in Live
    /\ \E r \in {pending(World, c, n)} :
           /\ Install(r.w)
           /\ last' = [op |-> "pending", conn |-> c, exc |-> r.exc,
                       ret |-> r.ret]
    /\ UNCHANGED <<nseq, nfault>>

GetTimeout(c, ret, tv) ==
    /\ c \in Live
    /\ \E r \in {get_timeout(World, c, ret, tv)} :
           /\ Install(r.w)
           /\ last' = [op |-> "get_timeout", conn |-> c, exc |-> r.exc,
                       ret |-> r.ret]
    /\ UNCHANGED <<nseq, nfault>>

\* The application uses an unwrapped socket: arg is the address it passes.
Unwrapped(u, op, arg, r) ==
    /\ u \in DOMAIN unwrapped
    /\ last' = [op |-> op, sock |-> u, arg |-> arg, via |-> r.via,
                dst |-> r.dst, exc |-> r.exc]
    /\ UNCHANGED <<conns, ssls, bios, ctxs, errq, socks, demux, sockq, nseq,
                   yielded, sent, unwrapped, nfault>>

Send(u) == Unwrapped(u, "unwrapped.send", None, u_send(unwrapped[u]))
SendAll(u) == Unwrapped(u, "unwrapped.sendall", None, u_sendall(unwrapped[u]))
SendTo(u, addr) == Unwrapped(u, "unwrapped.sendto", addr, u_sendto(unwrapped[u], addr))
UnwrappedConnect(u, addr) ==
    Unwrapped(u, "unwrapped.connect", addr, u_connect(unwrapped[u], addr))
UnwrappedConnectEx(u, addr) ==
    Unwrapped(u, "unwrapped.connect_ex", addr, u_connect_ex(unwrapped[u], addr))

AnyCalls == {CallOk, CallWantRead, CallSyscall, CallEof, CallFatal}

\* The server: datagrams arrive, the Listener listens and accepts and may be
\* told to shut down, timers are handled, allocations may fail.
Next ==
    \/ \E a \in SetupArgs : Construct(a, CallOk)
    \/ \E src \in Peers, kind \in DgramKinds,
          cookie \in {None} \cup IssuedCookies
                    \cup {ForgedCookie(p) : p \in Peers} :
         nseq < MaxHellos /\ Arrive(src, kind, cookie)
    \/ \E c \in DOMAIN conns, sockerr \in SockErrs : Listen(c, sockerr)
    \/ \E c \in DOMAIN conns, sockerr \in SockErrs, fail \in AllocSites,
          call \in AnyCalls : Accept(c, sockerr, fail, call)
    \/ \E c \in DOMAIN conns, call \in TimeoutCalls : HandleTimeout(c, call)
    \/ \E c \in Listeners : Shutdown(c, CallOk, CallOk)

Spec == Init /\ [][Next]_vars

\* The associations: peers with a valid cookie are accepted, their datagrams
\* are routed and read, associations are shut down and wrapped again.  The
\* server socket blocks, handshakes are the application's to start, and the
\* library calls succeed or fail with a syscall error.
AssocCalls == {CallOk, CallSyscall}

AssocArgs == {a \in SetupArgs : ~ a.do_handshake_on_connect}

NextAssoc ==
    \/ \E a \in AssocArgs : Construct(a, CallOk)
    \/ \E src \in Peers : Arrive(src, "hello_cookie", HMAC(rnd_key, Str(src)))
    \/ \E src \in Peers : Arrive(src, "record", None)
    \/ \E c \in DOMAIN conns : Listen(c, "none")
    \/ \E c \in DOMAIN conns, call \in AssocCalls :
         Accept(c, "none", "none", call)
    \/ \E c \in DOMAIN conns, call \in AssocCalls : DoHandshake(c, call)
    \/ \E c \in DOMAIN conns, call \in AssocCalls : Read(c, call)
    \/ \E c \in DOMAIN conns, call \in AssocCalls : Shutdown(c, call, CallOk)
    \/ \E u \in DOMAIN unwrapped, a \in AssocArgs, call \in AssocCalls :
         Rewrap(u, a, call)

SpecAssoc == InitWith(TimeoutNone) /\ [][NextAssoc]_vars

\* The constructor on the application's own sockets, with every combination
\* of the arguments it validates.
InitArgs ==
    {a \in CtorArgs : a.do_handshake_on_connect /\ a.suppress_ragged_eofs}

\* The application constructs one object after the other and ends at the
\* first exception.
NextInit ==
    \E a \in InitArgs :
      /\ Len(conns) < MaxCtorConns
      /\ last.op = "init" => last.exc = NoExc
      /\ Construct(a, CallOk)

SpecInit == Init /\ [][NextInit]_vars

\* Input and output on associations: the process is a server that accepts a
\* peer or a client that connects; the association handshakes, reads, writes,
\* handles timers, has a timeout set on its socket and shuts down, and the
\* unwrapped socket a shutdown returns is used.
IoArgs ==
    {a \in CtorArgs :
       /\ a.cert_reqs = CERT_NONE
       /\ a.ca_certs = NoFile
       /\ a.keyfile = a.certfile
       /\ IF a.server_side
          THEN a.sock = SrvSock /\ a.keyfile = "file.pem"
               /\ ~ a.do_handshake_on_connect
          ELSE a.sock = CliSock /\ a.keyfile = NoFile
               /\ a.suppress_ragged_eofs}

IoCallSet == AnyCalls \cup {CallZeroReturn, CallWantWrite}

NextIo ==
    \/ \E a \in IoArgs :
         conns = <<>> /\ Construct(a, CallOk)
    \/ \E src \in Peers :
         nseq = 0 /\ Arrive(src, "hello_cookie", HMAC(rnd_key, Str(src)))
    \/ \E src \in Peers : nseq = 1 /\ Arrive(src, "record", None)
    \/ \E c \in DOMAIN conns : Accept(c, "none", "none", CallOk)
    \/ \E c \in DOMAIN conns, p \in Peers, call \in IoCallSet :
         Connect(c, p, call)
    \/ \E c \in DOMAIN conns, call \in IoCallSet : DoHandshake(c, call)
    \/ \E c \in DOMAIN conns, call \in IoCallSet : Read(c, call)
    \/ \E c \in DOMAIN conns, call \in IoCallSet : Write(c, call)
    \/ \E c \in DOMAIN conns, call1 \in IoCallSet, call2 \in IoCallSet :
         Shutdown(c, call1, call2)
    \/ \E c \in DOMAIN conns, call \in TimeoutCalls : HandleTimeout(c, call)
    \/ \E c \in DOMAIN conns, t \in Timeouts : SetTimeout(c, t)
    \/ \E u \in DOMAIN unwrapped : Send(u)
    \/ \E u \in DOMAIN unwrapped : SendAll(u)
    \/ \E u \in DOMAIN unwrapped, addr \in Peers \cup {None} : SendTo(u, addr)
    \/ \E u \in DOMAIN unwrapped, addr \in Peers : UnwrappedConnect(u, addr)
    \/ \E u \in DOMAIN unwrapped, addr \in Peers : UnwrappedConnectEx(u, addr)

SpecIo == InitWith(TimeoutNone) /\ [][NextIo]_vars

\* Every operation of an association, in a process that is either a server
\* with one peer or a client.
NextOps ==
    \/ \E a \in IoArgs :
         conns = <<>> /\ Construct(a, CallOk)
    \/ \E src \in Peers :
         nseq = 0 /\ Arrive(src, "hello_cookie", HMAC(rnd_key, Str(src)))
    \/ \E src \in Peers : nseq = 1 /\ Arrive(src, "record", None)
    \/ \E c \in DOMAIN conns : Accept(c, "none", "none", CallOk)
    \/ \E c \in DOMAIN conns, p \in Peers, call \in IoCallSet :
         Connect(c, p, call)
    \/ \E c \in DOMAIN conns, call \in IoCallSet : DoHandshake(c, call)
    \/ \E c \in DOMAIN conns, call \in IoCallSet : Read(c, call)
    \/ \E c \in DOMAIN conns, call \in IoCallSet : Write(c, call)
    \/ \E c \in DOMAIN conns, call1 \in IoCallSet, call2 \in IoCallSet :
         Shutdown(c, call1, call2)
    \/ \E c \in DOMAIN conns, call \in TimeoutCalls : HandleTimeout(c, call)
    \/ \E c \in DOMAIN conns, t \in Timeouts : SetTimeout(c, t)
    \/ \E c \in DOMAIN conns, binary_form \in BOOLEAN,
          cert \in PeerCerts \cup {None} : GetPeerCert(c, binary_form, cert)
    \/ \E c \in DOMAIN conns, n \in {0, 1} : Pending(c, n)
    \/ \E c \in DOMAIN conns, ret \in {0, 1} : GetTimeout(c, ret, 1)

SpecOps == InitWith(TimeoutNone) /\ [][NextOps]_vars

\* Constructions and handoffs: a process builds a Listener and clients, and
\* the Listener accepts peers; allocations and handshakes may fail.
NextOwn ==
    \/ \E a \in IoArgs \cup SetupArgs :
         Len(conns) < MaxCtorConns /\ Construct(a, CallOk)
    \/ \E src \in Peers :
         nseq < MaxHellos /\ Arrive(src, "hello_cookie", HMAC(rnd_key, Str(src)))
    \/ \E c \in DOMAIN conns, fail \in AllocSites, call \in AnyCalls :
         Accept(c, "none", fail, call)

SpecOwn == Init /\ [][NextOwn]_vars

\* Wrapping again: the association of one peer handshakes, is given a
\* timeout and shut down, and the unwrapped socket is passed to the
\* constructor, with and without handshake on connect, until the sessions
\* are used up.
NextRewrap ==
    \/ \E a \in AssocArgs : Construct(a, CallOk)
    \/ \E src \in Peers :
         nseq = 0 /\ Arrive(src, "hello_cookie", HMAC(rnd_key, Str(src)))
    \/ \E c \in DOMAIN conns : Accept(c, "none", "none", CallOk)
    \/ \E c \in DOMAIN conns : DoHandshake(c, CallOk)
    \/ \E c \in DOMAIN conns, t \in Timeouts : SetTimeout(c, t)
    \/ \E c \in Associations, call \in AssocCalls : Shutdown(c, call, CallOk)
    \/ \E u \in DOMAIN unwrapped, a \in SetupArgs, call \in IoCallSet :
         Len(ssls) <= MaxConns /\ Rewrap(u, a, call)

SpecRewrap == InitWith(TimeoutNone) /\ [][NextRewrap]_vars

\* Certificates: a client with each certificate requirement connects,
\* handshakes and asks for the peer's certificate; timers are handled.
CertArgs ==
    {a \in CtorArgs :
       /\ a.sock = CliSock /\ ~ a.server_side
       /\ a.keyfile = NoFile /\ a.certfile = NoFile
       /\ a.ca_certs = (IF a.cert_reqs = CERT_NONE THEN NoFile ELSE "file.pem")
       /\ a.suppress_ragged_eofs}

NextCert ==
    \/ \E a \in CertArgs : conns = <<>> /\ Construct(a, CallOk)
    \/ \E c \in DOMAIN conns, p \in Peers, call \in AssocCalls :
         Connect(c, p, call)
    \/ \E c \in DOMAIN conns, call \in AssocCalls : DoHandshake(c, call)
    \/ \E c \in DOMAIN conns, call \in TimeoutCalls : HandleTimeout(c, call)
    \/ \E c \in DOMAIN conns, binary_form \in BOOLEAN,
          cert \in PeerCerts \cup {None} : GetPeerCert(c, binary_form, cert)

SpecCert == InitWith(TimeoutNone) /\ [][NextCert]_vars

\* The address codec on its own: the application's address tuples are encoded
\* for the crypto library (BIO_dgram_set_peer, BIO_dgram_set_connected) and
\* what the library holds is decoded (BIO_dgram_get_peer, DTLSv1_listen).
V4Hosts ==
    {<< <<"1", "2", "7">>, <<"0">>, <<"0">>, <<"1">> >>,
     << <<"1", "0">>, <<"0">>, <<"0">>, <<"2", "5", "5">> >>,
     << <<"1", "9", "2">>, <<"1", "6", "8">>, <<"1">>, <<"1", "0">> >>,
     << <<"0">>, <<"0">>, <<"0">>, <<"0">> >>,
     << <<"2", "5", "6">>, <<"0">>, <<"0">>, <<"1">> >>,
     << <<"1", "2", "7">>, <<"0">>, <<"0">>, <<"0", "1">> >>}

V6Hosts ==
    {<< <<>>, <<"1">> >>,
     << <<"0">>, <<"0">>, <<"0">>, <<"0">>, <<"0">>, <<"0">>, <<"0">>,
        <<"1">> >>,
     << <<"f", "e", "8", "0">>, <<>>, <<"1">> >>,
     << <<"F", "E", "8", "0">>, <<>>, <<"1">> >>,
     << <<"f", "e", "8", "0">>, <<>>, <<"0", "0", "0", "1">> >>,
     << <<"2", "0", "0", "1">>, <<"d", "b", "8">>, <<>>, <<"1">> >>,
     << <<"2", "0", "0", "1">>, <<"d", "b", "8">>, <<"0">>, <<"0">>, <<"1">>,
        <<"0">>, <<"0">>, <<"1">> >>,
     << <<"2", "0", "0", "1">>, <<"d", "b", "8">>, <<>>, <<"1">>, <<"0">>,
        <<"0">>, <<"1">> >>,
     << <<"1">>, <<"2">>, <<"3">> >>}

Ports == {0, 1, 255, 256, 443, 65535}
Words32 == {<<0, 0>>, <<0, 1>>, <<1, 2>>, <<65535, 65535>>}

AddrTuples ==
    {<<h, p>> : h \in V4Hosts, p \in Ports}
    \cup {<<h, p, f, sc>> : h \in V6Hosts, p \in Ports, f \in Words32,
                            sc \in {<<0, 0>>, <<0, 2>>}}

\* An application tuple is encoded, or the tuple just decoded is encoded again.
Encode(address) ==
    /\ \/ last.op = "none"
       \/ last.op = "addr_tuple_from_sockaddr_u" /\ address = last.ret
    /\ last' = [op |-> "sockaddr_u_from_addr_tuple", address |-> address]
               @@ sockaddr_u_from_addr_tuple(address)
    /\ UNCHANGED <<conns, ssls, bios, ctxs, errq, socks, demux, sockq, nseq,
                   yielded, sent, unwrapped, nfault>>

Decode ==
    /\ last.op = "sockaddr_u_from_addr_tuple"
    /\ last.exc = NoExc
    /\ last' = [op |-> "addr_tuple_from_sockaddr_u", address |-> last.address,
                su |-> last.su, ret |-> addr_tuple_from_sockaddr_u(last.su)]
    /\ UNCHANGED <<conns, ssls, bios, ctxs, errq, socks, demux, sockq, nseq,
                   yielded, sent, unwrapped, nfault>>

NextAddr ==
    \/ \E address \in AddrTuples : Encode(address)
    \/ Decode
SpecAddr == InitWith(TimeoutNone) /\ [][NextAddr]_vars

\* =============================================================== properties
Accepted == {c \in DOMAIN conns : conns[c].role = "accepted"}

\* The remote address of association c: where its write BIO sends.
PeerOf(c) == bios[conns[c].wbio].peer

\* What the read endpoint of association c has yielded and still holds.
YieldedTo(c) == yielded[BioKey(World, conns[c].rbio)]

\* C1: the read endpoint of every accepted association has yielded only
\* datagrams whose source is the association's peer, in their order of
\* arrival on the shared socket.
C1_EndpointYieldsOwnPeerInOrder ==
    \A c \in Accepted :
      /\ \A i \in DOMAIN YieldedTo(c) : YieldedTo(c)[i][1] = PeerOf(c)
      /\ \A i, j \in DOMAIN YieldedTo(c) :
           i < j => YieldedTo(c)[i][2] < YieldedTo(c)[j][2]

\* The endpoint of an accepted association has yielded two datagrams of its
\* peer while the Listener's endpoint has yielded others.
C1_Witness ==
    \E c \in Accepted :
      /\ Len(YieldedTo(c)) = 2
      /\ \E l \in Listeners : Len(YieldedTo(l)) >= 1

\* C2: at most one live association exists for each pair of local socket and
\* remote address.
C2_OneLiveAssociationPerPair ==
    \A c, d \in Live :
      conns[c].sock = conns[d].sock /\ PeerOf(c) = PeerOf(d) => c = d

\* C3: a listen() step allocates no session, BIO, context or association,
\* and the sessions not yet freed number one (the Listener's) plus one for
\* each association accept() has produced.
C3_ListenAllocatesNothing ==
    /\ [](Listeners # {} =>
            Cardinality({x \in DOMAIN ssls : ssls[x].freed = 0})
              = 1 + Cardinality(Accepted))
    /\ [][last'.op = "listen" =>
            /\ Len(ssls') = Len(ssls)
            /\ Len(bios') = Len(bios)
            /\ Len(ctxs') = Len(ctxs)
            /\ Len(conns') = Len(conns)]_vars

\* listen() has answered ClientHellos of two distinct sources, neither of
\* them verified, and the Listener's session is still the only one.
C3_Witness ==
    /\ last.op = "listen"
    /\ last.call.dgram.kind = "hello"
    /\ Cardinality({m.dst : m \in sent}) = 2
    /\ Len(ssls) = 1

\* The cookie the process secret binds to an address.
CookieFor(address) == HMAC(rnd_key, Str(address))

\* C4: every cookie sent to an address is the one bound to that address, and
\* a listen() that verified a cookie accepted it exactly when it is the one
\* bound to the source of the datagram at hand, whatever came before.
C4_CookieBoundToAddress ==
    /\ \A m \in sent : m.cookie = CookieFor(m.dst)
    /\ last.op = "listen" /\ last.call.verify # "none" =>
         /\ last.call.verify = "ok" <=>
              last.call.dgram.cookie = CookieFor(last.call.dgram.src)
         /\ \A b \in Peers \ {last.call.dgram.src} :
              last.call.dgram.cookie = CookieFor(b) =>
                last.call.verify = "fail"

\* listen() has rejected a cookie that this process issues to another
\* address, although no listen() before it sent that cookie.
C4_Witness ==
    /\ last.op = "listen"
    /\ last.call.verify = "fail"
    /\ last.call.dgram.cookie \in IssuedCookies
    /\ sent = {}

\* C5: when listen() returns an address, the DTLS listen primitive succeeded
\* in that call for a datagram of a new peer, and the address is the
\* Listener's pending peer and the source of the datagram whose cookie was
\* verified.
C5_ListenReturnsVerifiedPeer ==
    last.op = "listen" /\ last.ret # None =>
      /\ last.exc = NoExc
      /\ last.svc = "new_peer"
      /\ last.dtls = "success"
      /\ last.call.ret > 0
      /\ last.call.verify = "ok"
      /\ last.ret = conns[last.conn].pending_peer_address
      /\ last.ret = last.call.dgram.src

C5_Witness ==
    /\ last.op = "listen"
    /\ last.ret \in Peers
    /\ last.call.dgram.kind = "hello_cookie"

\* The conditions listen() is to recover from: no datagram, a datagram of a
\* known peer, WANT_READ from the DTLS listen primitive, a cookie mismatch
\* that the primitive put in the error queue.
C6_Recoverable ==
    \/ last.svc \in {"no_datagram", "known_peer"}
    \/ /\ last.svc = "new_peer"
       /\ \/ last.call.ret <= 0 /\ last.call.cond = SSL_ERROR_WANT_READ
          \/ ERR_COOKIE_MISMATCH \in Range(last.call.push)

\* C6: listen() returns None without raising, leaving no pending peer, under
\* exactly the recoverable conditions; under every other error it raises.
C6_ListenRecoversExactly ==
    last.op = "listen" =>
      /\ C6_Recoverable =>
           /\ last.exc = NoExc
           /\ last.ret = None
           /\ conns[last.conn].pending_peer_address = None
      /\ ~ C6_Recoverable => last.exc # NoExc \/ last.ret # None

\* C7: no session is held by two objects, and a successful accept() gives
\* the child the session the Listener held and the Listener a session
\* allocated in that call, in accept state, on the same context.
C7_AcceptHandsOverSession ==
    /\ [](\A c, d \in DOMAIN conns : conns[c].ssl = conns[d].ssl => c = d)
    /\ [][last'.op = "accept" /\ last'.ret # NoHandle =>
            /\ last'.exc = NoExc
            /\ conns'[last'.ret].ssl = conns[last'.conn].ssl
            /\ conns'[last'.conn].ssl \notin DOMAIN ssls
            /\ ssls'[conns'[last'.conn].ssl].state = "accept"
            /\ ssls'[conns'[last'.conn].ssl].freed = 0
            /\ ssls'[conns'[last'.ret].ssl].freed = 0
            /\ conns'[last'.ret].ctx = conns'[last'.conn].ctx
            /\ ssls'[conns'[last'.ret].ssl].ctx
                 = ssls'[conns'[last'.conn].ssl].ctx]_vars

\* Two consecutive accept() calls have each returned a child.
C7_Witness ==
    /\ last.op = "accept"
    /\ last.ret # NoHandle
    /\ Cardinality(Accepted) = 2

\* C8: an accept() in which an allocation fails raises and returns no child;
\* the Listener keeps the session and BIOs it had, unfreed, and its pending
\* peer; every handle allocated in the call is freed once, none twice.
C8_FailedAcceptKeepsListener ==
    [][last'.op = "accept" /\ last'.fail # "none" =>
         /\ last'.exc # NoExc
         /\ last'.ret = NoHandle
         /\ Len(conns') = Len(conns)
         /\ conns'[last'.conn].ssl = conns[last'.conn].ssl
         /\ conns'[last'.conn].rbio = conns[last'.conn].rbio
         /\ conns'[last'.conn].wbio = conns[last'.conn].wbio
         /\ ssls'[conns[last'.conn].ssl].freed = 0
         /\ ssls'[conns[last'.conn].ssl].rbio = conns[last'.conn].rbio
         /\ ssls'[conns[last'.conn].ssl].wbio = conns[last'.conn].wbio
         /\ bios'[conns[last'.conn].rbio].freed = 0
         /\ bios'[conns[last'.conn].wbio].freed = 0
         /\ conns'[last'.conn].pending_peer_address \in Peers
         /\ conns[last'.conn].pending_peer_address # None =>
              conns'[last'.conn].pending_peer_address
                = conns[last'.conn].pending_peer_address
         /\ \A b \in DOMAIN bios' : bios'[b].freed <= 1
         /\ \A b \in DOMAIN bios' \ DOMAIN bios : bios'[b].freed = 1
         /\ \A x \in DOMAIN ssls' : ssls'[x].freed <= 1
         /\ \A x \in DOMAIN ssls' \ DOMAIN ssls : ssls'[x].freed = 1]_vars

\* The allocation of the Listener's replacement session has failed after
\* both pairs of BIOs had been allocated.
C8_Witness ==
    /\ last.op = "accept"
    /\ last.fail = "new_source_ssl"
    /\ last.exc # NoExc

\* The error of a construction with cert_reqs required and no ca_certs.
NoTrustAnchors == [type |-> "SSLError", code |-> "ERR_NO_CERTS"]

C9_Case ==
    /\ last.op = "init"
    /\ last.args.cert_reqs = CERT_REQUIRED
    /\ ~ Truthy(last.args.ca_certs)

\* C9: construction with cert_reqs required and no ca_certs always fails, and
\* fails with NoTrustAnchors exactly when keyfile and certfile are given
\* together and a server has them; otherwise an earlier check fails first.
C9_NoTrustAnchorsAfterKeyChecks ==
    C9_Case =>
      /\ last.exc # NoExc
      /\ last.ret = NoHandle
      /\ last.exc = NoTrustAnchors <=>
           /\ Truthy(last.args.keyfile) <=> Truthy(last.args.certfile)
           /\ last.args.server_side => Truthy(last.args.keyfile)

\* C9 as stated: NoTrustAnchors for every combination of the other
\* arguments.
C9_AlwaysNoTrustAnchors == C9_Case => last.exc = NoTrustAnchors

\* A client on a stream socket, with a key and its certificate, fails with
\* NoTrustAnchors.
C9_Witness ==
    /\ C9_Case
    /\ last.exc = NoTrustAnchors
    /\ last.args.sock = TcpSock
    /\ ~ last.args.server_side
    /\ Truthy(last.args.keyfile)

\* The validation rules; a file argument is given when it names a file.
C10_Valid(a) ==
    /\ Truthy(a.keyfile) <=> Truthy(a.certfile)
    /\ a.server_side => Truthy(a.keyfile) /\ Truthy(a.certfile)
    /\ a.cert_reqs # CERT_NONE => Truthy(a.ca_certs)

\* The exceptions that come out of argument validation.
C10_Rejected(exc) == exc.type = "NameError" \/ exc = NoTrustAnchors

\* C10: the constructor rejects its arguments exactly when they break a
\* validation rule, and a rejected construction changes nothing.
C10_ValidationExact ==
    /\ [](last.op = "init" =>
            (C10_Rejected(last.exc) <=> ~ C10_Valid(last.args)))
    /\ [][last'.op = "init" /\ ~ C10_Valid(last'.args) =>
            /\ last'.exc # NoExc
            /\ last'.ret = NoHandle
            /\ UNCHANGED <<conns, ssls, bios, ctxs, errq, socks, demux,
                           sockq, yielded, sent, unwrapped>>]_vars

\* A server given a certificate and no key has been rejected while an
\* object constructed earlier exists.
C10_Witness ==
    /\ last.op = "init"
    /\ last.args.server_side
    /\ Truthy(last.args.certfile)
    /\ ~ Truthy(last.args.keyfile)
    /\ last.exc # NoExc
    /\ Len(conns) = 1

\* C11: in every reachable state, cipher() on an association returns None
\* exactly when the association's handshake_done flag is false.
C11_CipherNoneIffFlagFalse ==
    \A c \in Associations :
      (cipher(World, c).exc = NoExc /\ cipher(World, c).ret = None)
        <=> ~ conns[c].handshake_done

\* An explicit do_handshake() has set the flag and cipher() answers.
C11_Witness ==
    /\ last.op = "do_handshake" /\ last.exc = NoExc
    /\ conns[last.conn].handshake_done
    /\ cipher(World, last.conn).ret # None

\* C12: whenever the crypto session of an association has completed its
\* handshake, cipher() on it returns a (name, version, bits) triple, however
\* the handshake was driven: connect(), accept(), do_handshake(), or a
\* read() or write() that negotiated the session.
C12_CipherAfterHandshake ==
    \A c \in Live :
      ssls[conns[c].ssl].handshake = "done"
        => cipher(World, c).exc = NoExc /\ cipher(World, c).ret # None

HandshakeTimeout == [type |-> "SSLError", code |-> "ERR_HANDSHAKE_TIMEOUT"]
PortUnreachable == [type |-> "SSLError", code |-> "ERR_PORT_UNREACHABLE"]

\* The error of a library call that failed with condition cond and result
\* ret, surfaced unchanged.
Surfaced(exc, cond, ret) ==
    /\ exc.type = "openssl_error"
    /\ exc.ssl_error = cond
    /\ exc.result = ret

\* C13: a do_handshake() whose library call reports WANT_READ raises
\* HandshakeTimeout when the read socket has any timeout other than None,
\* zero included, and surfaces the WANT_READ error unchanged when the socket
\* has no timeout.
C13_WantReadWithTimeout ==
    last.op = "do_handshake" /\ last.call = CallWantRead
      => IF last.timeout # TimeoutNone
         THEN last.exc = HandshakeTimeout
         ELSE Surfaced(last.exc, SSL_ERROR_WANT_READ, 0 - 1)

\* C14: a do_handshake() whose library call fails with a syscall-level error
\* and result -1 raises PortUnreachable; every other failure, except
\* WANT_READ on a socket with a timeout, is re-raised unchanged.
C14_PortUnreachable ==
    last.op = "do_handshake" /\ last.call.ret <= 0
      => IF last.call.cond = SSL_ERROR_SYSCALL /\ last.call.ret = 0 - 1
         THEN last.exc = PortUnreachable
         ELSE \/ /\ last.call.cond = SSL_ERROR_WANT_READ
                 /\ last.timeout # TimeoutNone
              \/ Surfaced(last.exc, last.call.cond, last.call.ret)

\* What read() returns when there is nothing more to read.
EmptyBytes == <<"">>

\* C15: a read() that meets the peer's close-notify returns an empty byte
\* string when the association has suppress_ragged_eofs true, and surfaces
\* the error when it is false.
C15_ReadAfterCloseNotify ==
    last.op = "read" /\ last.call = CallZeroReturn
      => IF conns[last.conn].suppress_ragged_eofs
         THEN last.exc = NoExc /\ last.ret = EmptyBytes
         ELSE last.exc # NoExc

\* A read() or write() on a socket with timeout zero has just been told by
\* the library to wait for the socket.
C16_Case ==
    /\ last'.op \in {"read", "write"}
    /\ last'.call \in {CallWantRead, CallWantWrite}
    /\ gettimeout(World, get_socket(conns[last'.conn], TRUE)) = TimeoutZero

\* The handshake_done flag, the peer address, the sockets and the handles
\* the associations own are as before.
C16_Frame ==
    /\ conns' = conns
    /\ socks' = socks
    /\ ssls' = ssls
    /\ \A c \in DOMAIN conns : bios'[conns[c].wbio].peer = PeerOf(c)

\* C16: in non-blocking mode a WANT_READ or WANT_WRITE of the library during
\* read() or write() reaches the caller unchanged, and the failed call
\* leaves the association as it was, so the call can be retried.
C16_WantSurfacedUnchanged ==
    [][C16_Case => /\ Surfaced(last'.exc, last'.call.cond, 0 - 1)
                   /\ C16_Frame]_vars

\* C17: shutdown() on a Listener, whatever its state, returns without error,
\* makes no SSL_shutdown call and no I/O, and leaves the session, the BIOs,
\* the pending peer and the demux as they were.
C17_ListenerShutdownNoOp ==
    [][last'.op = "shutdown" /\ conns[last'.conn].is_listener
         => /\ last'.exc = NoExc /\ last'.ret = "None" /\ last'.calls = 0
            /\ UNCHANGED <<conns, ssls, bios, ctxs, errq, socks, demux, sockq,
                           yielded, sent, unwrapped>>]_vars

\* A Listener with a pending peer has been told to shut down.
C17_Witness ==
    /\ last.op = "shutdown"
    /\ conns[last.conn].is_listener
    /\ conns[last.conn].pending_peer_address # None

\* C18: one shutdown() of an association calls SSL_shutdown once or twice,
\* twice exactly when the first call reported result 0; nothing changes the
\* read-ahead setting in between; a first call that fails with another
\* result, and a second call that fails, raise.
C18_ShutdownCalls ==
    [][last'.op = "shutdown" /\ ~ conns[last'.conn].is_listener
         => /\ last'.calls \in {1, 2}
            /\ last'.calls = 2 <=> last'.call1.ret = 0
            /\ ctxs' = ctxs
            /\ last'.exc # NoExc
                 <=> \/ last'.call1.ret < 0
                     \/ last'.call1.ret = 0 /\ last'.call2.ret <= 0]_vars

\* The first call has just sent close-notify and the second has succeeded.
C18_Witness ==
    /\ last.op = "shutdown" /\ ~ conns[last.conn].is_listener
    /\ conns[last.conn].handshake_done
    /\ last.call1.ret = 0 /\ last.calls = 2 /\ last.exc = NoExc

\* C19: a shutdown() of an accepted association that does not raise returns
\* a new unwrapped socket that remembers the association's peer, reads from
\* the association's demux endpoint and has the association's write socket,
\* demux and context; on a client it returns the client's own socket; a
\* shutdown() that raises returns nothing.
C19_ShutdownResult ==
    [][last'.op = "shutdown" /\ ~ conns[last'.conn].is_listener
         => IF last'.exc # NoExc
            THEN last'.ret = "None" /\ unwrapped' = unwrapped
            ELSE IF conns[last'.conn].role = "client"
            THEN last'.ret = "sock" /\ unwrapped' = unwrapped
            ELSE /\ last'.ret = "unwrapped"
                 /\ unwrapped' = Append(unwrapped,
                      [wsock |-> conns[last'.conn].sock,
                       rsock |-> Endpoint(PeerOf(last'.conn)),
                       demux |-> conns[last'.conn].udp_demux,
                       ctx |-> conns[last'.conn].ctx,
                       peer_address |-> PeerOf(last'.conn)])
                 /\ conns[last'.conn].rsock = Endpoint(PeerOf(last'.conn))
                 /\ conns[last'.conn].sock = SrvSock]_vars

\* An accepted association has been shut down and its unwrapped socket
\* returned.
C19_Witness ==
    /\ last.op = "shutdown" /\ last.exc = NoExc /\ last.ret = "unwrapped"
    /\ conns[last.conn].role = "accepted"
    /\ unwrapped # <<>>

\* C20: every datagram an unwrapped socket sends by send, sendto or sendall
\* leaves on the original write socket for the remembered peer address,
\* whatever address the caller passes; connect and connect_ex always fail
\* and leave the remembered peer address alone.
C20_UnwrappedSendsToPeer ==
    /\ last.op \in {"unwrapped.send", "unwrapped.sendto", "unwrapped.sendall"}
         /\ last.exc = NoExc
         => /\ last.via = unwrapped[last.sock].wsock
            /\ last.dst = unwrapped[last.sock].peer_address
    /\ last.op \in {"unwrapped.connect", "unwrapped.connect_ex"}
         => /\ last.exc # NoExc
            /\ last.dst = None

\* The associations that have been shut down.
ShutDown == {c \in Associations : ssls[conns[c].ssl].handshake = "closed"}

\* C21: the constructor given the unwrapped socket of a shut-down association
\* yields an association with that association's write socket, demux read
\* endpoint, context and peer address, and a fresh session in accept state;
\* the constructor drives a handshake, which sets handshake_done, exactly
\* when do_handshake_on_connect is set, and only that handshake can make it
\* fail.
C21_RewrapSamePath ==
    last.op = "rewrap"
      => IF last.exc # NoExc THEN last.args.do_handshake_on_connect
         ELSE /\ \A c \in ShutDown \ {last.ret} :
                   /\ conns[last.ret].sock = conns[c].sock
                   /\ conns[last.ret].rsock = conns[c].rsock
                   /\ conns[last.ret].udp_demux = conns[c].udp_demux
                   /\ conns[last.ret].ctx = conns[c].ctx
                   /\ PeerOf(last.ret) = PeerOf(c)
              /\ bios[conns[last.ret].wbio].fd = conns[last.ret].sock
              /\ bios[conns[last.ret].rbio].fd = conns[last.ret].rsock
              /\ \A c \in DOMAIN conns \ {last.ret} :
                   conns[c].ssl # conns[last.ret].ssl
              /\ ssls[conns[last.ret].ssl].state = "accept"
              /\ ssls[conns[last.ret].ssl].ctx = conns[last.ret].ctx
              /\ conns[last.ret].handshake_done
                   = last.args.do_handshake_on_connect
              /\ ssls[conns[last.ret].ssl].handshake
                   = IF last.args.do_handshake_on_connect THEN "done"
                     ELSE "before"

\* The unwrapped socket of a shut-down association has been wrapped again
\* without a handshake.
C21_Witness ==
    /\ last.op = "rewrap" /\ last.exc = NoExc
    /\ ~ last.args.do_handshake_on_connect
    /\ ShutDown \ {last.ret} # {}
    /\ PeerOf(last.ret) \in Peers

\* C22: handle_timeout() returns true when the library retransmitted,
\* returns false when no timer had expired, and raises when the library
\* reports a failure; it never returns normally from a failure.
C22_HandleTimeoutOutcomes ==
    last.op = "handle_timeout"
      => IF last.call.ret = 1 THEN last.exc = NoExc /\ last.ret = "True"
         ELSE IF last.call.ret = 0
         THEN last.exc = NoExc /\ last.ret = "False"
         ELSE last.exc # NoExc

\* The non-blocking flag of BIO bio agrees with the timeout of socket sock.
NbioAgrees(bio, sock) == bios[bio].nbio = (socks[sock].timeout # TimeoutNone)

\* Both BIOs of object c agree with their sockets.
NbioChecked(c) ==
    /\ NbioAgrees(conns[c].wbio, conns[c].sock)
    /\ conns[c].wbio # conns[c].rbio
         => NbioAgrees(conns[c].rbio, conns[c].rsock)

\* C23: whenever an operation does socket I/O through the library, the
\* non-blocking flag of each BIO it uses says whether that BIO's socket
\* has a timeout now, also when the timeout was changed since the previous
\* operation.  do_handshake, read, write, shutdown and the DTLS listen step
\* use both BIOs of their object (accept() gives the Listener new BIOs after
\* its listen step and may handshake on the new association); a
\* retransmission by handle_timeout uses the write BIO.
C23_NbioFollowsTimeout ==
    /\ \/ last.op \in {"do_handshake", "read", "write"}
       \/ last.op = "shutdown" /\ last.calls > 0
       \/ last.op = "listen" /\ last.dtls # "none"
       \/ last.op = "accept" /\ last.dtls # "none" /\ ~ last.constructed
       => NbioChecked(last.conn)
    /\ last.op = "accept" /\ last.constructed /\ last.exc = NoExc
         /\ conns[last.conn].do_handshake_on_connect
       => NbioChecked(last.ret)
    /\ last.op = "handle_timeout" /\ last.call.ret = 1
       => NbioAgrees(conns[last.conn].wbio, conns[last.conn].sock)

\* C24: getpeercert(binary) returns None whenever no peer certificate was
\* received; otherwise the DER bytes when binary is true, an empty
\* dictionary when binary is false and cert_reqs is none, and the decoded
\* certificate when binary is false and cert_reqs is optional or required.
C24_GetPeerCert ==
    last.op = "getpeercert"
      => /\ last.exc = NoExc
         /\ last.ret =
              IF last.cert = None THEN None
              ELSE IF last.binary_form THEN <<"DER", last.cert>>
              ELSE IF conns[last.conn].cert_reqs = CERT_NONE THEN <<"dict">>
              ELSE <<"dict", last.cert>>

\* An association without certificate requirement has been asked for the
\* certificate its peer presented, not in binary form.
C24_Witness ==
    /\ last.op = "getpeercert" /\ last.cert # None /\ ~ last.binary_form
    /\ conns[last.conn].cert_reqs = CERT_NONE
    /\ last.ret = EmptyDict


C26_ErrorCarriesOwnEntries ==
    (/\ last.op \in {"do_handshake", "read", "write"}
     /\ last.exc.type = "openssl_error") =>
        /\ errq = <<>>
        /\ last.exc.errqueue = last.call.push


\* The host text is in the form inet_ntop prints: decimal fields for IPv4;
\* for IPv6 lower-case groups without leading zeros, no two zero groups
\* written out side by side, and a "::" that stands for at least two groups
\* and has no zero group beside it.
CanonicalGroup(field) ==
    /\ field # <<>>
    /\ \A i \in 1..Len(field) : \E v \in 0..15 : LowerDigits[v + 1] = field[i]
    /\ Len(field) > 1 => field[1] # "0"

CanonicalHost(address) ==
    LET host == address[1]
        zero(i) == host[i] = <<"0">> \/ host[i] = <<>>
    IN  IF Len(address) = 2 THEN TRUE
        ELSE /\ \A i \in 1..Len(host) :
                   host[i] # <<>> => CanonicalGroup(host[i])
             /\ \A i \in 1..(Len(host) - 1) : ~ (zero(i) /\ zero(i + 1))
             /\ Gaps(host) # {} => Len(host) <= NumGroups - 1

C28_SessionCacheOff ==
    \A c \in DOMAIN conns :
        conns[c].ctx # NoHandle =>
            ctxs[conns[c].ctx].cache_mode = SSL_SESS_CACHE_OFF


\* C29: a server-accepted association reads through a BIO on the demux
\* endpoint of its peer address, never on the shared socket, and writes
\* through a BIO on the shared socket with that peer address as destination
\* (the peer accept() promoted); a client association reads and writes
\* through one and the same BIO on its own socket.
C29_AcceptedBios(c) ==
    /\ conns[c].rbio # conns[c].wbio
    /\ bios[conns[c].wbio].fd = SrvSock
    /\ PeerOf(c) \in Peers
    /\ bios[conns[c].rbio].fd = Endpoint(PeerOf(c))
    /\ bios[conns[c].rbio].fd # SrvSock
    /\ PeerOf(c) \in DOMAIN demux.connections
    /\ ssls[conns[c].ssl].rbio = conns[c].rbio
    /\ ssls[conns[c].ssl].wbio = conns[c].wbio

C29_ClientBios(c) ==
    /\ conns[c].rbio = conns[c].wbio
    /\ bios[conns[c].wbio].fd = conns[c].sock
    /\ conns[c].sock = CliSock
    /\ ssls[conns[c].ssl].rbio = conns[c].rbio
    /\ ssls[conns[c].ssl].wbio = conns[c].wbio

\* C29: every accepted association and every client association has the BIO
\* binding above, in every reachable state, and the association accept()
\* returns writes to the peer accept() promoted.
C29_BioBinding ==
    /\ \A c \in DOMAIN conns :
          /\ conns[c].role = "accepted" => C29_AcceptedBios(c)
          /\ conns[c].role = "client" => C29_ClientBios(c)
    /\ (last.op = "accept" /\ last.ret # NoHandle) =>
          /\ conns[last.ret].role = "accepted"
          /\ PeerOf(last.ret) = last.peer

C29_Witness ==
    /\ last.op = "read"
    /\ last.exc = NoExc
    /\ conns[last.conn].role = "accepted"
    /\ conns[last.conn].handshake_done
    /\ C29_AcceptedBios(last.conn)


\* C30: a peer that completed the cookie exchange stays the Listener's pending
\* peer until accept() promotes it: a listen() made while a peer is pending
\* neither discards nor replaces the pending peer.
C30_PendingSurvivesListen ==
    [][\A c \in DOMAIN conns :
          (/\ conns[c].is_listener
           /\ conns[c].pending_peer_address # None
           /\ last'.op = "listen"
           /\ last'.conn = c) =>
              conns'[c].pending_peer_address = conns[c].pending_peer_address]_vars


\* C31: accept() creates a child only for a pending peer.  Without one it
\* runs listen() and, when that yields no peer, returns None and creates
\* nothing.  When a child is created, the peer address returned and the
\* child's write destination are the pending peer, the Listener's pending
\* peer is None afterwards, and no earlier child was created for that peer.
C31_AcceptStep(c) ==
    LET new_peer == conns[c].pending_peer_address
        child == last'.ret
    IN  /\ last'.listened <=> new_peer = None
        /\ (last'.listened /\ last'.dtls # "success") =>
              last'.ret = NoHandle /\ ~ last'.constructed
        /\ last'.ret = NoHandle => Len(conns') = Len(conns)
        /\ last'.ret # NoHandle =>
              /\ Len(conns') = Len(conns) + 1
              /\ child = Len(conns')
              /\ conns'[child].role = "accepted"
              /\ last'.peer \in Peers
              /\ new_peer # None => last'.peer = new_peer
              /\ bios'[conns'[child].wbio].peer = last'.peer
              /\ conns'[c].pending_peer_address = None
              /\ \A k \in Accepted : PeerOf(k) # last'.peer

\* C31: every accept() step creates a child only for a pending peer, as
\* C31_AcceptStep states.
C31_AcceptCreatesForPending ==
    [][last'.op = "accept" => C31_AcceptStep(last'.conn)]_vars

C31_Witness ==
    /\ last.op = "accept"
    /\ last.ret # NoHandle
    /\ ~ last.listened
    /\ Cardinality(Accepted) = 2
    /\ conns[last.conn].pending_peer_address = None


\* C32: for a datagram of a new peer one listen() call makes these calls, in
\* this order and each once: service(), pointing the write BIO at the peer,
\* forward(), the DTLS listen primitive (a handshake datagram it reads is
\* that peer's); a listen() whose service() reported no new peer calls neither
\* forward() nor the DTLS listen primitive.
C32_ListenOrder ==
    last.op = "listen" =>
        IF last.svc = "new_peer"
        THEN /\ Calls(last.log) =
                  <<"service", "BIO_dgram_set_peer", "forward",
                    "DTLSv1_listen">>
             /\ last.log[2].arg = <<conns[last.conn].wbio, last.peer>>
             /\ bios[conns[last.conn].wbio].peer = last.peer
             /\ last.call.dgram # NoDgram => last.call.dgram.src = last.peer
             /\ last.dtls # "none"
        ELSE /\ Calls(last.log) = <<"service">>
             /\ last.dtls = "none"
             /\ last.call = NoCall

C32_Witness ==
    /\ last.op = "listen"
    /\ last.svc = "new_peer"
    /\ last.dtls = "success"
    /\ Len(last.log) = 4


\* C33: the handshake_done flag of an object changes only in do_handshake()
\* (called by the application, or by connect() when the object handshakes on
\* connect), only from false to true and only when the handshake succeeded;
\* a do_handshake() that raises and read(), write(), pending(),
\* get_timeout(), handle_timeout(), getpeercert() and shutdown() leave it
\* as it was.
C33_HandshakeDoneFrame ==
    [][\A c \in DOMAIN conns :
          conns'[c].handshake_done # conns[c].handshake_done =>
              /\ \/ last'.op = "do_handshake"
                 \/ last'.op = "connect" /\ conns[c].do_handshake_on_connect
              /\ last'.conn = c
              /\ last'.exc = NoExc
              /\ ~ conns[c].handshake_done
              /\ conns'[c].handshake_done]_vars

C33_Witness ==
    /\ last.op = "do_handshake"
    /\ last.exc # NoExc
    /\ last.exc.type = "SSLError"
    /\ conns[last.conn].handshake_done


\* C34: outside listen() the Listener's listening flag is false and its
\* listening peer address is cleared, whichever way the last listen() ended,
\* so both cookie callbacks fail for every session when invoked outside
\* listen(); while the DTLS listen primitive runs they succeed for the
\* Listener's current session and for no other, such as the session handed
\* to an accepted child.
C34_Outside(c) ==
    /\ ~ conns[c].listening
    /\ conns[c].listening_peer_address = None
    /\ \A ssl \in DOMAIN ssls :
          /\ ~ _get_cookie(World, c, ssl).ok
          /\ py_generate_cookie_cb(World, c, ssl).ret = 0
          /\ \A p \in Peers :
                py_verify_cookie_cb(World, c, ssl,
                                    HMAC(rnd_key, Str(p))) = 0

C34_Inside(c) ==
    \A p \in Peers, ssl \in DOMAIN ssls :
       /\ listen_prepare(World, c, p).conns[c].listening
       /\ _get_cookie(listen_prepare(World, c, p), c, ssl).ok
             <=> ssl = conns[c].ssl
       /\ listen_finally(listen_prepare(World, c, p), c).conns[c] = conns[c]

\* C34: every Listener is, in every state, outside listen() with its flag
\* false and its listening peer address cleared, and its cookie callbacks
\* succeed only inside listen() for its current session.
C34_ListeningOnlyInListen ==
    \A c \in Listeners : C34_Outside(c) /\ C34_Inside(c)

C34_Witness ==
    /\ last.op = "listen"
    /\ last.dtls = "error"
    /\ last.exc # NoExc
    /\ Accepted # {}
    /\ \E k \in Accepted : conns[k].ssl # conns[last.conn].ssl


\* C35: when a Listener that handshakes on connect accepts and the child's
\* handshake raises, accept() raises that error and returns no child, and
\* the Listener is re-armed: it has no pending peer, it holds a new, unused
\* session in accept state that is not the one the child took over and that
\* no other object holds, and an accept() that then finds the valid hello of
\* another peer at the head of the socket creates that peer's association.
C35_FollowUp(w, c) ==
    LET d == Head(w.sockq)
        r == accept(w, c, "none", "none", CallOk)
    IN  /\ r.exc = NoExc
        /\ r.listened
        /\ r.dtls = "success"
        /\ r.ret = Len(w.conns) + 1
        /\ r.peer = d.src
        /\ r.w.bios[r.w.conns[r.ret].wbio].peer = d.src
        /\ r.w.conns[r.ret].handshake_done
        /\ r.w.conns[c].pending_peer_address = None

C35_NextHello(w) ==
    /\ w.sockq # <<>>
    /\ Head(w.sockq).kind = "hello_cookie"
    /\ Head(w.sockq).src \notin DOMAIN w.demux.connections
    /\ Head(w.sockq).cookie = HMAC(rnd_key, Str(Head(w.sockq).src))

C35_AcceptStep(c) ==
    /\ last'.ret = NoHandle
    /\ Len(conns') = Len(conns)
    /\ conns'[c].pending_peer_address = None
    /\ conns'[c].ssl # conns[c].ssl
    /\ conns'[c].ssl \notin DOMAIN ssls
    /\ ssls'[conns'[c].ssl].freed = 0
    /\ ssls'[conns'[c].ssl].handshake = "before"
    /\ ssls'[conns'[c].ssl].ctx = conns'[c].ctx
    /\ ssls'[conns'[c].ssl].rbio = conns'[c].rbio
    /\ \A k \in DOMAIN conns' : k # c => conns'[k].ssl # conns'[c].ssl
    /\ C35_NextHello(World') => C35_FollowUp(World', c)

\* C35: every accept() step whose child was constructed and whose handshake
\* raised leaves the Listener re-armed, as C35_AcceptStep states.
C35_FailedHandshakeRearms ==
    [][(/\ last'.op = "accept"
        /\ conns[last'.conn].do_handshake_on_connect
        /\ last'.constructed
        /\ last'.exc # NoExc) => C35_AcceptStep(last'.conn)]_vars

C35_Witness ==
    /\ last.op = "accept"
    /\ conns[last.conn].do_handshake_on_connect
    /\ last.constructed
    /\ last.exc # NoExc
    /\ C35_NextHello(World)


\* C36: every BIO has exactly one owner responsible for freeing it.  No BIO
\* is freed twice; a BIO not yet freed is either owned by its wrapper or held
\* by exactly one live session, never both; a BIO bound to a session is
\* disowned by its wrapper; a freed BIO has no owner left.  The session of
\* every object holds that object's BIOs: one BIO twice for a client, and for
\* an accepted child its own pair in place of the pair the session held
\* before the handoff.
C36_Holders(b) ==
    {x \in DOMAIN ssls :
       ssls[x].freed = 0 /\ (ssls[x].rbio = b \/ ssls[x].wbio = b)}

C36_Owners(b) ==
    Cardinality(C36_Holders(b)) + (IF bios[b].owned THEN 1 ELSE 0)

\* C36: in every state each BIO has exactly one owner, its wrapper or one
\* live session, no BIO is freed twice, and each object's session holds that
\* object's BIOs.
C36_SingleOwner ==
    /\ \A b \in DOMAIN bios :
          /\ bios[b].freed <= 1
          /\ bios[b].freed = 0 => C36_Owners(b) = 1
          /\ bios[b].freed = 1 => C36_Owners(b) = 0
          /\ C36_Holders(b) # {} => ~ bios[b].owned
    /\ \A c \in DOMAIN conns :
          /\ ssls[conns[c].ssl].rbio = conns[c].rbio
          /\ ssls[conns[c].ssl].wbio = conns[c].wbio
          /\ ssls[conns[c].ssl].freed = 0
          /\ conns[c].role = "client" => conns[c].rbio = conns[c].wbio
          /\ conns[c].role = "accepted" => conns[c].rbio # conns[c].wbio

C36_Witness ==
    /\ last.op = "accept"
    /\ last.ret # NoHandle
    /\ \E c \in DOMAIN conns : conns[c].role = "client"
    /\ Cardinality({b \in DOMAIN bios : bios[b].freed = 1}) = 2

====
